---------------------------- MODULE Spec2Model ----------------------------
(***************************************************************************)
(* Domain Resolution Engine of fishyu-yu/whois: the orchestrator           *)
(* performWhoisQuery with its result cache, the RDAP client                *)
(* queryDomainRDAP with its bootstrap directory and short-lived cache, the *)
(* priority WHOIS chain performDomainWhoisWithPriority, and the raw socket *)
(* client tcpWhoisQuery.                                                   *)
(*                                                                         *)
(* Representation of strings.  A domain name is the sequence of its        *)
(* dot-separated labels ("example.info" is <<"example", "info">>).  A      *)
(* WHOIS text is the sequence of its lines and a line is the sequence of   *)
(* its blank-separated tokens, a colon being a token of its own            *)
(* ("Name Server: NS1" is <<"Name", "Server", ":", "NS1">>).  Substring    *)
(* tests of the source are token-subsequence tests here.                   *)
(***************************************************************************)
EXTENDS Integers, Sequences, FiniteSets, TLC

VARIABLES
    now,                \* Date.now(), in milliseconds
    ticks,              \* number of clock advances so far (bounded)
    ncalls,             \* number of entry calls started so far (bounded)
    cache,              \* route.ts: cache, cacheKey -> {data, timestamp}
    rdapCache,          \* rdap-client.ts: rdapCache, asciiDomain -> entry
    dynamicRdapMap,     \* rdap-client.ts: dynamicRdapMap (Null or tld -> bases)
    lastBootstrapFetch, \* rdap-client.ts: lastBootstrapFetch
    pc,                 \* await the running call is suspended at, or "idle"
    req,                \* arguments of the running (or last) entry call
    loc,                \* local variables of the running call
    calls,              \* network calls issued by the running (or last) call
    inflight,           \* network calls issued and not yet settled
    ret,                \* outcome of the last completed entry call
    stored,             \* history: last successful store per request triple
    sock,               \* state of one tcpWhoisQuery invocation
    theDomain,          \* the domain name the calls of this run ask about
    peer,               \* a second entry call, suspended while this one runs
    fn                  \* one call of a pure function: its name, input, output

vars == <<now, ticks, ncalls, cache, rdapCache, dynamicRdapMap,
          lastBootstrapFetch, pc, req, loc, calls, inflight, ret, stored, sock,
          theDomain, peer, fn>>

Null == [null |-> TRUE]

(***************************************************************************)
(* Bounds of the model.                                                    *)
(***************************************************************************)
MaxTicks == 1
MaxAgedCalls == 3
MaxAgedTicks == 2
MaxCalls == 2
MaxChunks == 2
MaxSockSteps == 5
MaxLines == 4
MaxEvents == 3
MaxEventsAlone == 2

(***************************************************************************)
(* Program constants.                                                      *)
(***************************************************************************)
Minute == 60 * 1000
CACHE_TTL == 5 * 60 * 1000
RDAP_CACHE_TTL_MS == 5 * 60 * 1000
BOOTSTRAP_TTL == 24 * 60 * 60 * 1000
timeoutMs == 12000

(***************************************************************************)
(* Lower-casing (String.prototype.toLowerCase) of the tokens and labels    *)
(* that occur in the model; every other token is already lower case.       *)
(***************************************************************************)
ToLowerCase(tok) ==
    CASE tok = "Domain" -> "domain"
      [] tok = "Name" -> "name"
      [] tok = "Server" -> "server"
      [] tok = "Registrar" -> "registrar"
      [] tok = "WHOIS" -> "whois"
      [] tok = "Registrant" -> "registrant"
      [] tok = "No" -> "no"
      [] tok = "EXAMPLE.INFO" -> "example.info"
      [] tok = "NS1.EXAMPLE.INFO" -> "ns1.example.info"
      [] tok = "NS2.EXAMPLE.INFO" -> "ns2.example.info"
      [] tok = "John" -> "john"
      [] tok = "Application/RDAP+JSON" -> "application/rdap+json"
      [] tok = "Example" -> "example"
      [] tok = "Creation" -> "creation"
      [] tok = "Updated" -> "updated"
      [] tok = "Date" -> "date"
      [] tok = "Registry" -> "registry"
      [] tok = "Expiry" -> "expiry"
      [] tok = "ID" -> "id"
      [] tok = "Status" -> "status"
      [] tok = "Email" -> "email"
      [] tok = "Registration" -> "registration"
      [] tok = "last update of RDAP database" -> "last update of rdap database"
      [] OTHER -> tok

LowerSeq(s) == [i \in 1..Len(s) |-> ToLowerCase(s[i])]

\* s.includes(p) on token sequences
Includes(s, p) ==
    \E i \in 1..(Len(s) - Len(p) + 1) : SubSeq(s, i, i + Len(p) - 1) = p

\* s.startsWith(p) on token sequences
StartsWith(s, p) == Len(s) >= Len(p) /\ SubSeq(s, 1, Len(p)) = p

\* s.includes('.') for a token: host names are the tokens with a dot
HasDot(tok) ==
    tok \in {"whois.registrar.example", "example.info", "EXAMPLE.INFO",
             "NS1.EXAMPLE.INFO", "NS2.EXAMPLE.INFO", "ns1.example.info",
             "ns2.example.info", "//whois.registrar.example"}

\* index of the first ":" token of a line, 0 when there is none
FirstColon(line) ==
    IF \E i \in 1..Len(line) : line[i] = ":"
    THEN CHOOSE i \in 1..Len(line) :
            line[i] = ":" /\ \A j \in 1..(i - 1) : line[j] # ":"
    ELSE 0

(***************************************************************************)
(* isDomainUnregisteredFromWhois                                           *)
(***************************************************************************)
patterns ==
    { <<"no", "match", "for">>,
      <<"not", "found">>,
      <<"no", "entries", "found">>,
      <<"no", "data", "found">>,
      <<"the", "queried", "object", "does", "not", "exist">>,
      <<"status", ":", "available">>,
      <<"domain", "available">>,
      <<"no", "object", "found">>,
      <<"available">>,
      <<"not", "been", "registered">> }

isDomainUnregisteredFromWhois(raw) ==
    \E p \in patterns :
        \E k \in 1..Len(raw) : Includes(LowerSeq(raw[k]), p)

(***************************************************************************)
(* extractRegistrarWhoisServer: the first line that starts with one of the *)
(* three labels and whose text between the first and the second colon is   *)
(* a host name.                                                            *)
(***************************************************************************)
ServerLabels ==
    { <<"registrar", "whois", "server", ":">>,
      <<"whois", "server", ":">>,
      <<"registrar", "whois", ":">> }

\* line.split(':')[1]?.trim(): the tokens between the first and second colon
SecondField(line) ==
    LET c == FirstColon(line)
        rest == IF c = 0 THEN <<>> ELSE SubSeq(line, c + 1, Len(line))
        d == FirstColon(rest)
    IN  IF d = 0 THEN rest ELSE SubSeq(rest, 1, d - 1)

ServerOfLine(line) ==
    LET f == SecondField(line)
    IN  IF (\E lab \in ServerLabels : StartsWith(LowerSeq(line), lab))
           /\ Len(f) > 0 /\ \E i \in 1..Len(f) : HasDot(f[i])
        THEN f
        ELSE <<>>

\* the empty string <<>> stands for null: the caller tests truthiness only
RECURSIVE ExtractFrom(_, _)
ExtractFrom(lines, k) ==
    IF k > Len(lines) THEN <<>>
    ELSE IF ServerOfLine(lines[k]) # <<>> THEN ServerOfLine(lines[k])
    ELSE ExtractFrom(lines, k + 1)

extractRegistrarWhoisServer(whoisOutput) == ExtractFrom(whoisOutput, 1)

(***************************************************************************)
(* parseWhoisResult: key is the text before the first colon, value the     *)
(* rest; cleanKey is the lower-cased key with blanks replaced by "_" (the  *)
(* lower-cased token sequence here).  A key seen once maps to its value, a *)
(* key seen again to the array of its values in input order.               *)
(***************************************************************************)
\* String.prototype.trim: white space inside a string is the boundary of
\* two tokens; white space at its ends is a token " " of its own
RECURSIVE Trim(_)
Trim(str) ==
    IF Len(str) = 0 THEN str
    ELSE IF str[1] = " " THEN Trim(Tail(str))
    ELSE IF str[Len(str)] = " " THEN Trim(SubSeq(str, 1, Len(str) - 1))
    ELSE str

ParseLine_overwrite(parsed, line) ==
    LET c == FirstColon(line)
        key == SubSeq(line, 1, c - 1)
        value == Trim(SubSeq(line, c + 1, Len(line)))
    IN  IF c = 0 \/ Len(key) = 0 \/ Len(value) = 0 THEN parsed
        ELSE [k \in (DOMAIN parsed) \cup {LowerSeq(Trim(key))} |->
                 IF k = LowerSeq(Trim(key)) THEN [isArray |-> FALSE, v |-> value]
                 ELSE parsed[k]]

ParseLine(parsed, line) ==
    LET c == FirstColon(line)
        key == SubSeq(line, 1, c - 1)
        value == Trim(SubSeq(line, c + 1, Len(line)))
        cleanKey == LowerSeq(Trim(key))
    IN  IF c = 0 \/ Len(key) = 0 \/ Len(value) = 0 THEN parsed
        ELSE IF cleanKey \in DOMAIN parsed
        THEN IF parsed[cleanKey].isArray
             THEN [parsed EXCEPT ![cleanKey].v = Append(@, value)]
             ELSE [parsed EXCEPT ![cleanKey] =
                      [isArray |-> TRUE, v |-> <<parsed[cleanKey].v, value>>]]
        ELSE [k \in (DOMAIN parsed) \cup {cleanKey} |->
                 IF k = cleanKey THEN [isArray |-> FALSE, v |-> value]
                 ELSE parsed[k]]

RECURSIVE ParseLines(_, _, _)
ParseLines(parsed, lines, k) ==
    IF k > Len(lines) THEN parsed
    ELSE ParseLines(ParseLine(parsed, lines[k]), lines, k + 1)

parseWhoisResult(raw) == ParseLines(<<>>, raw, 1)

(***************************************************************************)
(* hasRichContactData: one of the name / email / phone fields of the       *)
(* registrant, admin or tech contact is present.  The three spaced names   *)
(* of the source ('registrant contact', ...) and the spaced variants       *)
(* field.replace('_', ' ') can never equal a cleanKey, which has no blank. *)
(***************************************************************************)
contactFields ==
    { <<"registrant", "name">>, <<"registrant", "email">>,
      <<"registrant", "phone">>,
      <<"admin", "name">>, <<"admin", "email">>, <<"admin", "phone">>,
      <<"tech", "name">>, <<"tech", "email">>, <<"tech", "phone">> }

hasRichContactData_always(parsed) == TRUE

hasRichContactData(parsed) ==
    \E field \in contactFields : field \in DOMAIN parsed

(***************************************************************************)
(* Domain names of the model and the static tables restricted to their     *)
(* top-level domains: "info" (static RDAP server, gTLD WHOIS host), "cn"   *)
(* (static RDAP server, ccTLD with a WHOIS host) and "io" (in no table).   *)
(***************************************************************************)
Queries == { <<"example", "info">>, <<"example", "cn">>, <<"example", "io">> }
\* the dataSource argument; "" stands for undefined
DataSources == {"", "rdap", "whois", "registrar", "registry", "auto"}
\* (type, dataSource) of a request: every data source for a domain query,
\* and a query of another type, whose data source is not looked at
RequestKinds ==
    {<<"domain", ds>> : ds \in DataSources} \cup {<<"ip", "">>}
\* options.preferSource; "" stands for undefined
PreferSources == {"", "registrar", "registry"}

Url(origin, path) == [origin |-> origin, path |-> path]
NoUrl == Url("", "")

RDAP_SERVERS(tld) ==
    CASE tld = "info" -> Url("https://rdap.afilias.net", "/rdap/afilias")
      [] tld = "cn" -> Url("https://rdap.cnnic.cn", "")
      [] OTHER -> NoUrl

CCTLD_DATABASE == {"cn"}

CCTLDWhoisServer(tld) ==
    CASE tld = "cn" -> <<"whois.cnnic.cn">>
      [] OTHER -> <<>>

gtldServers(tld) ==
    CASE tld = "info" -> <<"whois.afilias.net">>
      [] OTHER -> <<>>

\* tld.toLowerCase().replace('.', ''): the first dot of the argument is
\* removed, so an argument of two or more labels becomes one string that is
\* a key of the table only if its labels concatenate to one
NormalizedTLD(name) ==
    IF Len(name) = 1 THEN ToLowerCase(name[1])
    ELSE IF Len(name) = 2 /\ name[1] = "" THEN ToLowerCase(name[2])
    ELSE "?"

isCCTLD(name) == NormalizedTLD(name) \in CCTLD_DATABASE

\* getCCTLDInfo(name)?.whoisServer
getCCTLDInfoWhoisServer(name) == CCTLDWhoisServer(NormalizedTLD(name))

getTLD(domain) == ToLowerCase(domain[Len(domain)])

extractTLD(domain) == IF Len(domain) = 0 THEN "" ELSE ToLowerCase(domain[Len(domain)])

getDomainWhoisServer_gtldOnly(domain) == gtldServers(extractTLD(domain))

getDomainWhoisServer(domain) ==
    LET tld == extractTLD(domain)
    IN  IF isCCTLD(<<tld>>) THEN getCCTLDInfoWhoisServer(<<tld>>)
        ELSE gtldServers(tld)

\* new URL(`http://${domain}`).hostname.toLowerCase()
toASCII(domain) == LowerSeq(domain)

(***************************************************************************)
(* Bootstrap directory: the IANA document is a sequence of services, each  *)
(* a pair of a TLD list and a server list.                                 *)
(***************************************************************************)
\* s.replace(/\/+$/, '') on the path of a URL
StripSlashes(url) ==
    CASE url.path = "/rdap/" -> Url(url.origin, "/rdap")
      [] url.path = "/" -> Url(url.origin, "")
      [] OTHER -> url

Service(tlds, servers) == [tlds |-> tlds, servers |-> servers]

BootstrapDocs ==
    { << Service(<<"info">>,
                 <<Url("https://rdap.identitydigital.services", "/rdap/")>>),
         Service(<<"io">>,
                 <<Url("https://rdap.identitydigital.services", "/rdap/"),
                   Url("https://rdap.nic.io", "")>>) >>,
      <<>> }

NoMap == [isNull |-> TRUE, map |-> <<>>]

Put(f, k, v) ==
    [x \in (DOMAIN f) \cup {k} |-> IF x = k THEN v ELSE f[x]]

RECURSIVE PutAll(_, _, _, _)
PutAll(map, tlds, i, bases) ==
    IF i > Len(tlds) THEN map
    ELSE PutAll(Put(map, ToLowerCase(tlds[i]), bases), tlds, i + 1, bases)

\* the loop of ensureBootstrapLoaded over data.services
RECURSIVE BuildMap(_, _, _)
BuildMap(map, services, k) ==
    IF k > Len(services) THEN map
    ELSE LET entry == services[k]
             bases == [i \in 1..Len(entry.servers) |->
                          StripSlashes(entry.servers[i])]
         IN  BuildMap(IF Len(bases) > 0
                      THEN PutAll(map, entry.tlds, 1, bases)
                      ELSE map,
                      services, k + 1)

BootstrapFresh_never(dyn, last, t) == FALSE

\* if (dynamicRdapMap && (now - lastBootstrapFetch) < BOOTSTRAP_TTL) return
BootstrapFresh(dyn, last, t) == ~dyn.isNull /\ (t - last) < BOOTSTRAP_TTL

\* getRDAPServersAsync after its await of ensureBootstrapLoaded
getRDAPServers(dyn, domain) ==
    LET tld == getTLD(domain)
        dynamic == IF ~dyn.isNull /\ tld \in DOMAIN dyn.map
                   THEN dyn.map[tld] ELSE <<>>
        staticBase == RDAP_SERVERS(tld)
    IN  IF Len(dynamic) > 0 THEN dynamic
        ELSE IF staticBase # NoUrl THEN <<staticBase>> ELSE <<>>

isRDAPSupported(dyn, domain) ==
    LET tld == getTLD(domain)
    IN  \/ (~dyn.isNull /\ tld \in DOMAIN dyn.map /\ Len(dyn.map[tld]) > 0)
        \/ RDAP_SERVERS(tld) # NoUrl

(***************************************************************************)
(* RDAP responses.                                                         *)
(***************************************************************************)
Link(rel, type, href) == [rel |-> rel, type |-> type, href |-> href]
Entity(roles, links) == [roles |-> roles, links |-> links]
Body(id, links, entities) == [id |-> id, links |-> links, entities |-> entities]
NoBody == Body("", <<>>, <<>>)

RegistrarRecordUrl == Url("https://rdap.registrar.example", "/domain/example.info")
RegistrarBaseUrl == Url("https://rdap.registrar.example", "/")

\* registry answer without any registrar link
BodyPlain == Body("registry-plain", <<>>, <<>>)
\* registry answer with a top-level related link to the registrar's record
BodyTopLink ==
    Body("registry-top-link",
         <<Link("self", "application/rdap+json",
                Url("https://rdap.afilias.net", "/rdap/afilias")),
           Link("related", "application/rdap+json", RegistrarRecordUrl)>>,
         <<>>)
\* registry answer whose registrar entity has two related links: the first
\* with an upper-case media type and no href, the second usable
BodyEntityLink ==
    Body("registry-entity-link", <<>>,
         <<Entity({"registrant"}, <<>>),
           Entity({"registrar"},
                  <<Link("related", "Application/RDAP+JSON", NoUrl),
                    Link("related", "application/rdap+json", RegistrarBaseUrl)>>)>>)
\* the registrar's own answer
BodyRegistrar == Body("registrar-record", <<>>, <<>>)

\* what a registry server and what a registrar's endpoint may answer with
RegistryBodies == {BodyPlain, BodyTopLink, BodyEntityLink}
RegistrarBodies == {BodyRegistrar}

\* Array.prototype.find: the element at the least of the indices hits (those
\* of the elements satisfying the predicate), Null when there is none
Find(seq, hits) ==
    IF hits = {} THEN Null
    ELSE seq[CHOOSE i \in hits : \A j \in hits : i <= j]

IsRegistrarEntity(e) == "registrar" \in e.roles

extractRegistrarRdapUrl(rdapData) ==
    LET IsRelatedRdap(link) ==
            link.rel = "related"
            /\ ToLowerCase(link.type) = "application/rdap+json"
        Hits(links) == {i \in 1..Len(links) : IsRelatedRdap(links[i])}
        fromTop == Find(rdapData.links, Hits(rdapData.links))
        registrarEntity ==
            Find(rdapData.entities,
                 {i \in 1..Len(rdapData.entities) :
                     IsRegistrarEntity(rdapData.entities[i])})
        fromEntity == IF registrarEntity = Null THEN Null
                      ELSE Find(registrarEntity.links,
                                Hits(registrarEntity.links))
    IN  IF fromTop # Null /\ fromTop.href # NoUrl THEN fromTop.href
        ELSE IF fromEntity # Null /\ fromEntity.href # NoUrl THEN fromEntity.href
        ELSE NoUrl

extractRegistrarRdapServer(rdapData) ==
    LET IsRelatedRdapExact(link) ==
            link.rel = "related" /\ link.type = "application/rdap+json"
        registrarEntity ==
            Find(rdapData.entities,
                 {i \in 1..Len(rdapData.entities) :
                     IsRegistrarEntity(rdapData.entities[i])})
        rdapLink == IF registrarEntity = Null THEN Null
                    ELSE Find(registrarEntity.links,
                              {i \in 1..Len(registrarEntity.links) :
                                  IsRelatedRdapExact(registrarEntity.links[i])})
    IN  IF rdapLink # Null /\ rdapLink.href # NoUrl
        THEN Url(rdapLink.href.origin, "")
        ELSE NoUrl

\* /\/domain\//.test(clean)
HasDomainPath(url) == url.path = "/domain/example.info"

\* the URL the registrar query is sent to and the domain appended to it
\* (<<>> when the link already names the domain)
RegistrarTarget(extractedUrl, registrarRdapServer, asciiDomain) ==
    IF extractedUrl # NoUrl
    THEN IF HasDomainPath(extractedUrl)
         THEN [url |-> extractedUrl, q |-> <<>>]
         ELSE [url |-> StripSlashes(extractedUrl), q |-> asciiDomain]
    ELSE [url |-> StripSlashes(registrarRdapServer), q |-> asciiDomain]

WantsRegistrar_always(extractedUrl, registrarRdapServer, preferred) ==
    extractedUrl # NoUrl \/ registrarRdapServer # NoUrl

\* if ((extractedUrl || registrarRdapServer) && preferred !== 'registry')
WantsRegistrar(extractedUrl, registrarRdapServer, preferred) ==
    (extractedUrl # NoUrl \/ registrarRdapServer # NoUrl)
    /\ preferred # "registry"

(***************************************************************************)
(* WHOIS texts a server may answer with.                                   *)
(***************************************************************************)
TextRegistry ==
    << <<"Domain", "Name", ":", "EXAMPLE.INFO">>,
       <<"Registrar", "WHOIS", "Server", ":", "whois.registrar.example">>,
       <<"Name", "Server", ":", "NS1.EXAMPLE.INFO">>,
       <<"Name", "Server", ":", "NS2.EXAMPLE.INFO">> >>

TextRegistrar ==
    << <<"Domain", "Name", ":", "EXAMPLE.INFO">>,
       <<"Registrant", "Name", ":", "John">> >>

TextNoMatch ==
    << <<"No", "match", "for", "domain", "EXAMPLE.INFO">>,
       <<"WHOIS", "Server", ":", "whois.registrar.example">> >>

WhoisTexts == {TextRegistry, TextRegistrar, TextNoMatch}

(***************************************************************************)
(* What the network may answer.                                            *)
(***************************************************************************)
\* fetch of an RDAP URL: 2xx with a body, a non-2xx status, a network error
\* or abort after 10 s, or a 2xx whose body is not JSON
HttpResponses(bodies) ==
    {[kind |-> "ok", body |-> b] : b \in bodies}
    \cup {[kind |-> k, body |-> NoBody] : k \in {"non2xx", "error", "badjson"}}

\* a 2xx answer whose body is the JSON text null
NullJson == [kind |-> "ok", body |-> NoBody]

\* fetch of the IANA bootstrap document
BootResponses ==
    {[kind |-> "ok", doc |-> d] : d \in BootstrapDocs}
    \cup {[kind |-> k, doc |-> <<>>] : k \in {"non2xx", "error", "badjson"}}

\* tcpWhoisQuery: resolves with the text, or rejects (timeout, socket error)
TcpResponses ==
    {[kind |-> "ok", text |-> t] : t \in WhoisTexts}
    \cup {[kind |-> "error", text |-> <<>>]}

\* execAsync of a whois command: resolves with stdout ("ok"), resolves with
\* stderr and an empty stdout ("stderr"), rejects because the shell finds no
\* whois command ("notfound": the message holds "whois" and "not found"), or
\* rejects otherwise ("failed": timeout, non-zero exit)
ExecResponses ==
    {[kind |-> "ok", stdout |-> t] : t \in WhoisTexts}
    \cup {[kind |-> k, stdout |-> <<>>] : k \in {"stderr", "notfound", "failed"}}

ExecError(resp) == IF resp.kind = "notfound" THEN "ExecNotFound" ELSE "ExecFailed"

(***************************************************************************)
(* The running call.  A configuration C gathers the variables a handler    *)
(* reads and writes; each handler below is the code that runs from one     *)
(* await to the next, as a function from configurations to configurations. *)
(***************************************************************************)
\* a network call: its kind, the URL or the WHOIS host it goes to, the name
\* asked for, the await that issued it and whether it settled with an answer
Call(kind, url, host, q) ==
    [kind |-> kind, url |-> url, host |-> host, q |-> q, at |-> "", ok |-> FALSE]

LocInit ==
    [ branch |-> "",            \* which branch of performWhoisQuery runs
      asciiDomain |-> <<>>,     \* queryDomainRDAP: asciiDomain
      preferred |-> "",         \* queryDomainRDAP: options?.preferSource
      bootNow |-> 0,            \* ensureBootstrapLoaded: now
      servers |-> <<>>,         \* queryDomainRDAP: servers
      idx |-> 0,                \* queryDomainRDAP: position in servers
      registryData |-> NoBody,  \* queryDomainRDAP: registryData
      preferredServer |-> <<>>, \* performDomainWhoisWithPriority
      registryStdout |-> <<>>,  \* performDomainWhoisWithPriority
      registrarServer |-> <<>>, \* performDomainWhoisWithPriority
      rdapStep |-> "none",      \* history: none, hit, ok, failed
      rdapError |-> "",         \* history: the error queryDomainRDAP threw
      prioStep |-> "none",      \* history: none, running, ok, threw
      regUnreg |-> FALSE,       \* history: registry text matched a phrase
      rrUnreg |-> FALSE ]       \* history: registrar text matched a phrase

NoRet == [status |-> "none", value |-> Null, error |-> "", fromCache |-> FALSE]

Ok(value) == [ok |-> TRUE, value |-> value, error |-> ""]
Err(error) == [ok |-> FALSE, value |-> Null, error |-> error]

Issue(C, call, at) ==
    [C EXCEPT !.pc = at,
              !.calls = Append(@, [call EXCEPT !.at = at]),
              !.inflight = @ \cup {[call EXCEPT !.at = at]}]

\* an await resumes: the call awaited is the last one issued
Settle(C, ok) ==
    [C EXCEPT !.inflight = @ \ {C.calls[Len(C.calls)]},
              !.calls[Len(C.calls)].ok = ok]

\* the entry call returns (out.ok) or throws to its caller
Complete(C, out, fromCache) ==
    [C EXCEPT !.pc = "idle",
              !.ret = [status |-> IF out.ok THEN "ok" ELSE "error",
                       value |-> out.value, error |-> out.error,
                       fromCache |-> fromCache],
              !.loc = [LocInit EXCEPT !.branch = C.loc.branch,
                                      !.rdapStep = C.loc.rdapStep,
                                      !.rdapError = C.loc.rdapError,
                                      !.prioStep = C.loc.prioStep,
                                      !.regUnreg = C.loc.regUnreg,
                                      !.rrUnreg = C.loc.rrUnreg]]

(***************************************************************************)
(* performWhoisQuery: cache key, freshness test, store and error mapping.  *)
(***************************************************************************)
\* `${type}:${query}:${dataSource || 'rdap'}`
cacheKey(query, type, dataSource) ==
    <<type, query, IF dataSource = "" THEN "rdap" ELSE dataSource>>

CacheFresh_never(entry, t) == FALSE

CacheFresh_always(entry, t) == TRUE

\* Date.now() - cached.timestamp < CACHE_TTL
CacheFresh(entry, t) == t - entry.timestamp < CACHE_TTL

Triple(r) == <<r.type, r.query, r.dataSource>>

\* history: when the upstream answer a record is made of arrived: now, or
\* the time the RDAP client stored the answer it served from its cache
Origin(C) ==
    IF C.loc.rdapStep = "hit" THEN C.rdapCache[C.loc.asciiDomain].timestamp
    ELSE C.now

ResolveSucceed_keepFirst(C, result) ==
    LET key == cacheKey(C.req.query, C.req.type, C.req.dataSource)
    IN  Complete(IF key \in DOMAIN C.cache THEN C
                 ELSE [C EXCEPT !.cache = Put(@, key, [data |-> result,
                                                      timestamp |-> C.now])],
                 Ok(result), FALSE)

\* cache.set(cacheKey, { data: result, timestamp: Date.now() }); return result
ResolveSucceed(C, result) ==
    LET key == cacheKey(C.req.query, C.req.type, C.req.dataSource)
        C1 == [C EXCEPT
                 !.cache = Put(@, key, [data |-> result, timestamp |-> C.now]),
                 !.stored = Put(@, Triple(C.req),
                                [data |-> result, at |-> C.now,
                                 call |-> C.ncalls,
                                 origin |-> Origin(C)])]
    IN  Complete(C1, Ok(result), FALSE)

\* validateDomain(query).tld: '' unless the name has two or more non-empty
\* labels
ValidationTld(query) ==
    IF Len(query) >= 2 /\ \A i \in 1..Len(query) : query[i] # ""
    THEN ToLowerCase(query[Len(query)])
    ELSE ""

MapError_alwaysUnsupported(C, err) ==
    IF err = "ExecNotFound" THEN "UnsupportedSuffix" ELSE err

\* the catch block of performWhoisQuery
MapError(C, err) ==
    IF err = "ExecNotFound"
    THEN LET tld == ValidationTld(C.req.query)
             rdapSupported == IF tld # ""
                              THEN isRDAPSupported(C.dynamicRdapMap, <<tld>>)
                              ELSE FALSE
             hasWhoisServer == getDomainWhoisServer(C.req.query) # <<>>
         IN  IF C.req.type = "domain" /\ ~rdapSupported /\ ~hasWhoisServer
             THEN "UnsupportedSuffix"
             ELSE "WhoisNotInstalled"
    ELSE err

ResolveThrow_cachesError(C, err) ==
    Complete([C EXCEPT !.cache = Put(@, cacheKey(C.req.query, C.req.type,
                                                 C.req.dataSource),
                                     [data |-> Null, timestamp |-> C.now])],
             Err(MapError(C, err)), FALSE)

ResolveThrow(C, err) == Complete(C, Err(MapError(C, err)), FALSE)

(***************************************************************************)
(* performStandardWhoisQuery                                               *)
(***************************************************************************)
StandardIssue(C, at) == Issue(C, Call("exec", NoUrl, <<>>, C.req.query), at)

StandardResult_whoisTag(resp, query, type, t) ==
    IF resp.kind \in {"notfound", "failed"} THEN Err(ExecError(resp))
    ELSE IF resp.kind = "stderr" THEN Err("Stderr")
    ELSE IF type = "domain" /\ isDomainUnregisteredFromWhois(resp.stdout)
    THEN Err("DomainNotRegistered")
    ELSE Ok([raw |-> resp.stdout, parsed |-> parseWhoisResult(resp.stdout),
             query |-> query, type |-> type, timestamp |-> t,
             dataSource |-> "whois"])

StandardResult(resp, query, type, t) ==
    IF resp.kind \in {"notfound", "failed"} THEN Err(ExecError(resp))
    ELSE IF resp.kind = "stderr" THEN Err("Stderr")
    ELSE IF type = "domain" /\ isDomainUnregisteredFromWhois(resp.stdout)
    THEN Err("DomainNotRegistered")
    ELSE Ok([raw |-> resp.stdout, parsed |-> parseWhoisResult(resp.stdout),
             query |-> query, type |-> type, timestamp |-> t,
             dataSource |-> "standard"])

(***************************************************************************)
(* performWhoisQuery after performDomainWhoisWithPriority returned or      *)
(* threw.                                                                  *)
(***************************************************************************)
AfterPriority(C, out) ==
    LET C1 == [C EXCEPT !.loc.prioStep = IF out.ok THEN "ok" ELSE "threw"]
    IN  IF out.ok
        THEN IF C.loc.branch \in {"registrar", "registry"}
             THEN ResolveSucceed(C1, [out.value EXCEPT
                                         !.dataSource = C.loc.branch])
             ELSE ResolveSucceed(C1, out.value)
        ELSE IF C.loc.branch = "A"
             THEN StandardIssue(C1, "standard")
             ELSE ResolveThrow(C1, out.error)

(***************************************************************************)
(* performDomainWhoisWithPriority                                          *)
(***************************************************************************)
DomainInfo(query) ==
    [ validationTld |-> ValidationTld(query),
      isCountryTLD |-> isCCTLD(query),
      cctldWhoisServer |-> IF isCCTLD(query)
                           THEN getCCTLDInfoWhoisServer(query) ELSE <<>> ]

PreferredServer(query) ==
    IF isCCTLD(query) THEN getCCTLDInfoWhoisServer(query)
    ELSE getDomainWhoisServer(query)

WhoisRecord(raw, source, query, t) ==
    [ raw |-> raw, parsed |-> parseWhoisResult(raw), source |-> source,
      domainInfo |-> DomainInfo(query), query |-> query, type |-> "domain",
      timestamp |-> t, dataSource |-> source ]

\* third step: registrarText is <<>> when registrarResult is null
Decide(C, registrarText) ==
    IF registrarText # <<>> /\ hasRichContactData(parseWhoisResult(registrarText))
    THEN AfterPriority(C, Ok(WhoisRecord(registrarText, "registrar",
                                         C.req.query, C.now)))
    ELSE AfterPriority(C, Ok(WhoisRecord(C.loc.registryStdout, "registry",
                                         C.req.query, C.now)))

\* the outer catch: performStandardWhoisQuery(query, "domain")
PriorityCatch(C) == StandardIssue(C, "fallback")

ToRegistrarStep(C, text) ==
    LET C1 == [C EXCEPT !.loc.registryStdout = text,
                        !.loc.registrarServer = extractRegistrarWhoisServer(text)]
    IN  IF C1.loc.registrarServer # <<>>
        THEN Issue(C1, Call("tcp", NoUrl, C1.loc.registrarServer, C.req.query),
                   "registrarTcp")
        ELSE Decide(C1, <<>>)

AfterRegistryText_noThrow(C, text) ==
    ToRegistrarStep([C EXCEPT !.loc.regUnreg =
                        isDomainUnregisteredFromWhois(text)], text)

\* from the registry text to the registrar query
AfterRegistryText(C, text) ==
    IF isDomainUnregisteredFromWhois(text)
    THEN PriorityCatch([C EXCEPT !.loc.regUnreg = TRUE])
    ELSE ToRegistrarStep(C, text)

StartPriority(C) ==
    LET server == PreferredServer(C.req.query)
        C1 == [C EXCEPT !.loc.preferredServer = server,
                        !.loc.prioStep = "running"]
    IN  IF server # <<>>
        THEN Issue(C1, Call("tcp", NoUrl, server, C.req.query), "registryTcp")
        ELSE Issue(C1, Call("exec", NoUrl, <<>>, C.req.query), "registryExec")

OnRegistryTcp(C0, resp) ==
    LET C == Settle(C0, resp.kind = "ok")
    IN  IF resp.kind = "ok" THEN AfterRegistryText(C, resp.text)
        ELSE Issue(C, Call("exec", NoUrl, C.loc.preferredServer, C.req.query),
                   "registryExec")

OnRegistryExec(C0, resp) ==
    LET C == Settle(C0, resp.kind \in {"ok", "stderr"})
    IN  IF resp.kind \in {"ok", "stderr"} THEN AfterRegistryText(C, resp.stdout)
        ELSE PriorityCatch(C)

OnRegistrarTcp(C0, resp) ==
    LET C == Settle(C0, resp.kind = "ok")
        retry == Issue(C, Call("exec", NoUrl, C.loc.registrarServer,
                               C.req.query), "registrarExec")
    IN  IF resp.kind = "ok"
        THEN IF isDomainUnregisteredFromWhois(resp.text)
             THEN [retry EXCEPT !.loc.rrUnreg = TRUE]
             ELSE Decide(C, resp.text)
        ELSE retry

OnRegistrarExec(C0, resp) ==
    LET C == Settle(C0, resp.kind \in {"ok", "stderr"})
    IN  IF resp.kind \in {"ok", "stderr"}
        THEN IF isDomainUnregisteredFromWhois(resp.stdout)
             THEN Decide([C EXCEPT !.loc.rrUnreg = TRUE], <<>>)
             ELSE Decide(C, resp.stdout)
        ELSE Decide(C, <<>>)

\* the fallback of the outer catch returns or throws out of the function
OnFallback(C0, resp) ==
    LET C == Settle(C0, resp.kind \in {"ok", "stderr"})
        r == StandardResult(resp, C.req.query, "domain", C.now)
    IN  IF r.ok
        THEN AfterPriority(C, Ok([k \in (DOMAIN r.value) \cup {"domainInfo"} |->
                                     IF k = "domainInfo"
                                     THEN DomainInfo(C.req.query)
                                     ELSE r.value[k]]))
        ELSE AfterPriority(C, r)

\* performStandardWhoisQuery called from performWhoisQuery itself
OnStandard(C0, resp) ==
    LET C == Settle(C0, resp.kind \in {"ok", "stderr"})
        r == StandardResult(resp, C.req.query, C.req.type, C.now)
    IN  IF r.ok THEN ResolveSucceed(C, r.value) ELSE ResolveThrow(C, r.error)

(***************************************************************************)
(* performWhoisQuery after queryDomainRDAP returned or threw; a direct     *)
(* call of the exported queryDomainRDAP ends here.                         *)
(***************************************************************************)
RdapRecord(rdapData, query, type, t) ==
    [ rdap |-> rdapData.body,   \* what raw and parsed are derived from
      query |-> query, type |-> type, timestamp |-> t,
      dataSource |-> IF rdapData.rdapSource = "registrar"
                     THEN "rdap-registrar" ELSE "rdap-registry",
      rdapSource |-> rdapData.rdapSource,
      rdapRegistryRaw |-> rdapData.registryRaw,
      rdapRegistrarRaw |-> rdapData.registrarRaw ]

AfterRdap_alwaysWhois(C, out, step) ==
    LET C1 == [C EXCEPT !.loc.rdapStep = step, !.loc.rdapError = out.error]
    IN  IF C.loc.branch = "direct" THEN Complete(C1, out, step = "hit")
        ELSE StartPriority(C1)

AfterRdap(C, out, step) ==
    LET C1 == [C EXCEPT !.loc.rdapStep = step, !.loc.rdapError = out.error]
    IN  IF C.loc.branch = "direct" THEN Complete(C1, out, step = "hit")
        ELSE IF out.ok
        THEN ResolveSucceed(C1, RdapRecord(out.value, C.req.query,
                                           C.req.type, C.now))
        ELSE StartPriority(C1)

(***************************************************************************)
(* queryDomainRDAP                                                         *)
(***************************************************************************)
FinalData(body, rdapSource, registryRaw, registrarRaw) ==
    [ body |-> body, rdapSource |-> rdapSource,
      registryRaw |-> registryRaw, registrarRaw |-> registrarRaw ]

\* rdapCache.set(asciiDomain, ...); return finalData
FinishRdap(C, finalData) ==
    AfterRdap([C EXCEPT !.rdapCache =
                  Put(@, C.loc.asciiDomain,
                      [data |-> finalData, timestamp |-> C.now])],
              Ok(finalData), "ok")

\* from the registry answer to the registrar query
AfterRegistry(C, registryData) ==
    LET extractedUrl == extractRegistrarRdapUrl(registryData)
        registrarRdapServer == IF extractedUrl # NoUrl THEN NoUrl
                               ELSE extractRegistrarRdapServer(registryData)
        target == RegistrarTarget(extractedUrl, registrarRdapServer,
                                  C.loc.asciiDomain)
        C1 == [C EXCEPT !.loc.registryData = registryData]
    IN  IF WantsRegistrar(extractedUrl, registrarRdapServer, C.loc.preferred)
        THEN Issue(C1, Call("rdap-registrar", target.url, <<>>, target.q),
                   "rdapRegistrar")
        ELSE FinishRdap(C1, FinalData(registryData, "registry",
                                      registryData, NoBody))

TryServer(C, k) ==
    Issue([C EXCEPT !.loc.idx = k],
          Call("rdap-registry", C.loc.servers[k], <<>>, C.loc.asciiDomain),
          "rdapRegistry")

AfterBootstrap_failResolve(C) ==
    LET servers == getRDAPServers(C.dynamicRdapMap, C.loc.asciiDomain)
    IN  IF Len(servers) = 0
        THEN Complete([C EXCEPT !.loc.rdapStep = "failed",
                                !.loc.rdapError = "NoRdapServer"],
                      Err("NoRdapServer"), FALSE)
        ELSE TryServer([C EXCEPT !.loc.servers = servers], 1)

\* the rest of getRDAPServersAsync and the start of the server loop
AfterBootstrap(C) ==
    LET servers == getRDAPServers(C.dynamicRdapMap, C.loc.asciiDomain)
    IN  IF Len(servers) = 0 THEN AfterRdap(C, Err("NoRdapServer"), "failed")
        ELSE TryServer([C EXCEPT !.loc.servers = servers], 1)

\* queryDomainRDAP from its entry to its first await
StartRdap(C, name, preferSource) ==
    LET asciiDomain == toASCII(name)
        C1 == [C EXCEPT !.loc.asciiDomain = asciiDomain,
                        !.loc.preferred = preferSource,
                        !.loc.bootNow = C.now]
    IN  IF asciiDomain \in DOMAIN C.rdapCache
           /\ (C.now - C.rdapCache[asciiDomain].timestamp) < RDAP_CACHE_TTL_MS
        THEN AfterRdap(C1, Ok(C.rdapCache[asciiDomain].data), "hit")
        ELSE IF BootstrapFresh(C.dynamicRdapMap, C.lastBootstrapFetch, C.now)
        THEN AfterBootstrap(C1)
        ELSE Issue(C1, Call("bootstrap", NoUrl, <<>>, <<>>), "bootstrap")

OnBootstrap_stampsFailure(C0, resp) ==
    LET C == Settle(C0, resp.kind = "ok")
    IN  IF resp.kind = "ok"
        THEN AfterBootstrap([C EXCEPT
                 !.dynamicRdapMap = [isNull |-> FALSE,
                                     map |-> BuildMap(<<>>, resp.doc, 1)],
                 !.lastBootstrapFetch = C.loc.bootNow])
        ELSE AfterBootstrap([C EXCEPT !.lastBootstrapFetch = C.loc.bootNow])

\* ensureBootstrapLoaded after its fetch settled
OnBootstrap(C0, resp) ==
    LET C == Settle(C0, resp.kind = "ok")
    IN  IF resp.kind = "ok"
        THEN AfterBootstrap([C EXCEPT
                 !.dynamicRdapMap = [isNull |-> FALSE,
                                     map |-> BuildMap(<<>>, resp.doc, 1)],
                 !.lastBootstrapFetch = C.loc.bootNow])
        ELSE AfterBootstrap(C)

OnRdapRegistry_firstOnly(C0, resp) ==
    LET C == Settle(C0, resp.kind = "ok")
    IN  IF resp.kind = "ok" /\ resp.body # NoBody
        THEN AfterRegistry(C, resp.body)
        ELSE AfterRdap(C, Err("RdapAllFailed"), "failed")

\* one turn of the server loop and what follows it: a 2xx answer with a
\* JSON body ends the loop, and a body that is null (NoBody) then fails the
\* test !registryData as an exhausted list does
OnRdapRegistry(C0, resp) ==
    LET C == Settle(C0, resp.kind = "ok")
    IN  IF resp.kind = "ok"
        THEN IF resp.body = NoBody
             THEN AfterRdap(C, Err("RdapAllFailed"), "failed")
             ELSE AfterRegistry(C, resp.body)
        ELSE IF C.loc.idx < Len(C.loc.servers) THEN TryServer(C, C.loc.idx + 1)
        ELSE AfterRdap(C, Err("RdapAllFailed"), "failed")

OnRdapRegistrar_registryOnly(C0, resp) ==
    LET C == Settle(C0, resp.kind = "ok")
        registryData == C.loc.registryData
    IN  FinishRdap(C, FinalData(registryData, "registry", registryData, NoBody))

OnRdapRegistrar_throws(C0, resp) ==
    LET C == Settle(C0, resp.kind = "ok")
        registryData == C.loc.registryData
    IN  IF resp.kind = "ok"
        THEN FinishRdap(C, FinalData(resp.body, "registrar",
                                     registryData, resp.body))
        ELSE AfterRdap(C, Err("RdapAllFailed"), "failed")

OnRdapRegistrar(C0, resp) ==
    LET C == Settle(C0, resp.kind = "ok")
        registryData == C.loc.registryData
    IN  IF resp.kind = "ok"
        THEN FinishRdap(C, FinalData(resp.body, "registrar",
                                     registryData, resp.body))
        ELSE FinishRdap(C, FinalData(registryData, "registry",
                                     registryData, NoBody))

(***************************************************************************)
(* Entry calls.                                                            *)
(***************************************************************************)
Request(kind, query, type, dataSource, preferSource) ==
    [ kind |-> kind, query |-> query, type |-> type,
      dataSource |-> dataSource, preferSource |-> preferSource ]

Enter(C, request, branch) ==
    [C EXCEPT !.req = request, !.ncalls = @ + 1, !.calls = <<>>,
              !.ret = NoRet, !.loc = [LocInit EXCEPT !.branch = branch]]

BranchOf_allAuto(type, dataSource) ==
    IF type # "domain" THEN "other" ELSE "E"

BranchOf(type, dataSource) ==
    IF type # "domain" THEN "other"
    ELSE IF dataSource \in {"", "rdap"} THEN "A"
    ELSE IF dataSource \in {"whois", "registrar", "registry"} THEN dataSource
    ELSE "E"

\* performWhoisQuery from its entry to its first await
performWhoisQuery(C0, query, type, dataSource) ==
    LET branch == BranchOf(type, dataSource)
        C == Enter(C0, Request("resolve", query, type, dataSource, ""), branch)
        key == cacheKey(query, type, dataSource)
    IN  IF key \in DOMAIN C.cache /\ CacheFresh(C.cache[key], C.now)
        THEN Complete(C, Ok(C.cache[key].data), TRUE)
        ELSE IF branch \in {"A", "E"} THEN StartRdap(C, query, "")
        ELSE IF branch \in {"registrar", "registry"} THEN StartPriority(C)
        ELSE StandardIssue(C, "standard")

\* queryDomainRDAP called by another importer of rdap-client
queryDomainRDAP(C0, name, preferSource) ==
    StartRdap(Enter(C0, Request("rdap", name, "domain", "", preferSource),
                    "direct"),
              name, preferSource)

(***************************************************************************)
(* The state machine.                                                      *)
(***************************************************************************)
Cur ==
    [ now |-> now, ncalls |-> ncalls, cache |-> cache, rdapCache |-> rdapCache,
      dynamicRdapMap |-> dynamicRdapMap,
      lastBootstrapFetch |-> lastBootstrapFetch, pc |-> pc, req |-> req,
      loc |-> loc, calls |-> calls, inflight |-> inflight, ret |-> ret,
      stored |-> stored ]

Install(C) ==
    /\ ncalls' = C.ncalls
    /\ cache' = C.cache
    /\ rdapCache' = C.rdapCache
    /\ dynamicRdapMap' = C.dynamicRdapMap
    /\ lastBootstrapFetch' = C.lastBootstrapFetch
    /\ pc' = C.pc
    /\ req' = C.req
    /\ loc' = C.loc
    /\ calls' = C.calls
    /\ inflight' = C.inflight
    /\ ret' = C.ret
    /\ stored' = C.stored
    /\ UNCHANGED <<now, ticks, sock, theDomain, peer, fn>>

(***************************************************************************)
(* tcpWhoisQuery: one invocation, its socket and the promise it returns.   *)
(* The socket's timeout is the idle timeout of net.Socket.setTimeout: the  *)
(* 'timeout' event is emitted when nothing was sent or received for        *)
(* timeoutMs.  A promise settles once: a later resolve or reject is void.  *)
(***************************************************************************)
SockStep == timeoutMs \div 2

\* what one 'data' event may carry
Chunks == { <<<<"Domain", "Name", ":", "EXAMPLE.INFO">>>>,
            <<<<"Registrant", "Name", ":", "John">>>> }

SockInit ==
    [ phase |-> "unused",     \* unused, connecting, connected
      chunks |-> <<>>,        \* chunks
      timedOut |-> FALSE,     \* timedOut
      destroyed |-> FALSE,    \* socket.destroy() was called
      ended |-> FALSE,        \* 'end' was emitted
      closed |-> FALSE,       \* 'close' was emitted
      promise |-> "pending",  \* pending, resolved, rejected
      value |-> <<>>,         \* the text the promise resolved with
      error |-> "",           \* what the promise rejected with
      idle |-> 0,             \* time since the last activity on the socket
      steps |-> 0,            \* clock steps since the call started
      quiet |-> FALSE ]       \* history: no data and no end before the timeout

\* Buffer.concat(chunks).toString('utf8')
RECURSIVE Concat(_, _)
Concat(chunks, k) ==
    IF k > Len(chunks) THEN <<>> ELSE chunks[k] \o Concat(chunks, k + 1)

PromiseResolve(s, raw) ==
    IF s.promise = "pending"
    THEN [s EXCEPT !.promise = "resolved", !.value = raw] ELSE s

PromiseReject(s, err) ==
    IF s.promise = "pending"
    THEN [s EXCEPT !.promise = "rejected", !.error = err] ELSE s

\* const cleanup = () => { try { socket.destroy() } catch {} }
cleanup(s) == [s EXCEPT !.destroyed = TRUE]

OnTimeout_noReject(s) == cleanup([s EXCEPT !.timedOut = TRUE])

\* socket.on('timeout', ...)
OnTimeout(s) ==
    PromiseReject(cleanup([s EXCEPT !.timedOut = TRUE]), "timeout")

\* socket.on('error', ...)
OnError(s) == PromiseReject(cleanup(s), "error")

\* socket.on('data', ...)
OnData(s, data) == [s EXCEPT !.chunks = Append(@, data)]

\* socket.on('end', ...)
OnEnd(s) == IF s.timedOut THEN s ELSE PromiseResolve(s, Concat(s.chunks, 1))

OnClose_discard(s) == s

\* socket.on('close', ...)
OnClose(s) ==
    IF ~s.timedOut /\ Len(s.chunks) > 0
    THEN PromiseResolve(s, Concat(s.chunks, 1)) ELSE s

\* the variables of one entry call; at first the second call has not begun
PeerInit ==
    [ pc |-> "idle", req |-> Request("", <<>>, "", "", ""), loc |-> LocInit,
      calls |-> <<>>, inflight |-> {}, ret |-> NoRet ]

Init ==
    /\ now = 0
    /\ ticks = 0
    /\ ncalls = 0
    /\ cache = <<>>
    /\ rdapCache = <<>>
    /\ dynamicRdapMap = NoMap
    /\ lastBootstrapFetch = 0
    /\ pc = "idle"
    /\ req = Request("", <<>>, "", "", "")
    /\ loc = LocInit
    /\ calls = <<>>
    /\ inflight = {}
    /\ ret = NoRet
    /\ stored = <<>>
    /\ sock = SockInit
    /\ theDomain \in Queries
    /\ peer = PeerInit
    /\ fn = [op |-> "none"]

\* less than and exactly the TTL of the two result caches
TickSteps == {4 * Minute, 5 * Minute}

\* time passes between two calls (the clock advances by whole minutes, a
\* chain of network calls is over within its timeouts; time before the
\* first call and after the last one changes nothing)
Tick ==
    /\ pc = "idle"
    /\ ncalls > 0
    /\ ncalls < MaxCalls
    /\ ticks < MaxTicks
    /\ \E dt \in TickSteps : now' = now + dt
    /\ ticks' = ticks + 1
    /\ UNCHANGED <<ncalls, cache, rdapCache, dynamicRdapMap, lastBootstrapFetch,
                   pc, req, loc, calls, inflight, ret, stored, sock, theDomain,
                   peer, fn>>

Resolve ==
    /\ pc = "idle"
    /\ ncalls < MaxCalls
    /\ \E kind \in RequestKinds :
          Install(performWhoisQuery(Cur, theDomain, kind[1], kind[2]))

QueryRdap ==
    /\ pc = "idle"
    /\ ncalls < MaxCalls
    /\ \E preferSource \in PreferSources :
          Install(queryDomainRDAP(Cur, theDomain, preferSource))

BootstrapReturn ==
    /\ pc = "bootstrap"
    /\ \E resp \in BootResponses : Install(OnBootstrap(Cur, resp))

RdapRegistryReturn ==
    /\ pc = "rdapRegistry"
    /\ \E resp \in HttpResponses(RegistryBodies) \cup {NullJson} :
          Install(OnRdapRegistry(Cur, resp))

RdapRegistrarReturn ==
    /\ pc = "rdapRegistrar"
    /\ \E resp \in HttpResponses(RegistrarBodies) :
          Install(OnRdapRegistrar(Cur, resp))

RegistryTcpReturn ==
    /\ pc = "registryTcp"
    /\ \E resp \in TcpResponses : Install(OnRegistryTcp(Cur, resp))

RegistryExecReturn ==
    /\ pc = "registryExec"
    /\ \E resp \in ExecResponses : Install(OnRegistryExec(Cur, resp))

RegistrarTcpReturn ==
    /\ pc = "registrarTcp"
    /\ \E resp \in TcpResponses : Install(OnRegistrarTcp(Cur, resp))

RegistrarExecReturn ==
    /\ pc = "registrarExec"
    /\ \E resp \in ExecResponses : Install(OnRegistrarExec(Cur, resp))

FallbackReturn ==
    /\ pc = "fallback"
    /\ \E resp \in ExecResponses : Install(OnFallback(Cur, resp))

StandardReturn ==
    /\ pc = "standard"
    /\ \E resp \in ExecResponses : Install(OnStandard(Cur, resp))

Next ==
    \/ Tick
    \/ Resolve
    \/ BootstrapReturn
    \/ RdapRegistryReturn
    \/ RdapRegistrarReturn
    \/ RegistryTcpReturn
    \/ RegistryExecReturn
    \/ RegistrarTcpReturn
    \/ RegistrarExecReturn
    \/ FallbackReturn
    \/ StandardReturn

Spec == Init /\ [][Next]_vars

\* three resolves of one name four or five minutes apart, the first with
\* no data source and the later ones with a data source that has a cache
\* key of its own and takes the automatic path
AgedQueries == { <<"example", "info">> }
AgedKind(n) == IF n = 0 THEN <<"domain", "">> ELSE <<"domain", "auto">>

TickAged ==
    /\ pc = "idle"
    /\ ncalls > 0
    /\ ncalls < MaxAgedCalls
    /\ ticks < MaxAgedTicks
    /\ \E dt \in TickSteps : now' = now + dt
    /\ ticks' = ticks + 1
    /\ UNCHANGED <<ncalls, cache, rdapCache, dynamicRdapMap, lastBootstrapFetch,
                   pc, req, loc, calls, inflight, ret, stored, sock, theDomain,
                   peer, fn>>

ResolveAged ==
    /\ pc = "idle"
    /\ ncalls < MaxAgedCalls
    /\ theDomain \in AgedQueries
    /\ Install(performWhoisQuery(Cur, theDomain, AgedKind(ncalls)[1],
                                 AgedKind(ncalls)[2]))

NextAged ==
    \/ TickAged
    \/ ResolveAged
    \/ BootstrapReturn
    \/ RdapRegistryReturn
    \/ RdapRegistrarReturn
    \/ RegistryTcpReturn
    \/ RegistryExecReturn
    \/ RegistrarTcpReturn
    \/ RegistrarExecReturn
    \/ FallbackReturn
    \/ StandardReturn

SpecAged == Init /\ [][NextAged]_vars

\* the name as it is in Queries and with a capital letter: both have the
\* ASCII form toASCII gives
Spellings(query) == {query, [query EXCEPT ![1] = "Example"]}

\* a resolve of the name in one of its spellings, no data source given
ResolveSpelled ==
    /\ pc = "idle"
    /\ ncalls < MaxCalls
    /\ \E query \in Spellings(theDomain) :
          Install(performWhoisQuery(Cur, query, "domain", ""))

NextSpelled ==
    \/ Tick
    \/ ResolveSpelled
    \/ BootstrapReturn
    \/ RdapRegistryReturn
    \/ RdapRegistrarReturn
    \/ RegistryTcpReturn
    \/ RegistryExecReturn
    \/ RegistrarTcpReturn
    \/ RegistrarExecReturn
    \/ FallbackReturn
    \/ StandardReturn

SpecSpelled == Init /\ [][NextSpelled]_vars

\* queryDomainRDAP called on its own, with every preferSource
NextRdap ==
    \/ Tick
    \/ QueryRdap
    \/ BootstrapReturn
    \/ RdapRegistryReturn
    \/ RdapRegistrarReturn

SpecRdap == Init /\ [][NextRdap]_vars

\* a day passes between two calls: one minute less than, and exactly, the
\* TTL of the bootstrap map
DayTick ==
    /\ pc = "idle"
    /\ ncalls > 0
    /\ ncalls < MaxCalls
    /\ ticks < MaxTicks
    /\ \E dt \in {BOOTSTRAP_TTL - Minute, BOOTSTRAP_TTL} : now' = now + dt
    /\ ticks' = ticks + 1
    /\ UNCHANGED <<ncalls, cache, rdapCache, dynamicRdapMap, lastBootstrapFetch,
                   pc, req, loc, calls, inflight, ret, stored, sock, theDomain,
                   peer, fn>>

\* queryDomainRDAP called on its own, a day apart
NextBoot ==
    \/ DayTick
    \/ QueryRdap
    \/ BootstrapReturn
    \/ RdapRegistryReturn
    \/ RdapRegistrarReturn

SpecBoot == Init /\ [][NextBoot]_vars

\* the event loop turns to the other entry call: what belongs to one call
\* (its position, arguments, local variables and outcome) is exchanged, the
\* caches and the bootstrap map are the same for both
Swap ==
    /\ req.kind = "resolve"
    /\ pc # "idle" \/ peer.pc # "idle"
    /\ peer' = [pc |-> pc, req |-> req, loc |-> loc, calls |-> calls,
                inflight |-> inflight, ret |-> ret]
    /\ pc' = peer.pc
    /\ req' = peer.req
    /\ loc' = peer.loc
    /\ calls' = peer.calls
    /\ inflight' = peer.inflight
    /\ ret' = peer.ret
    /\ UNCHANGED <<now, ticks, ncalls, cache, rdapCache, dynamicRdapMap,
                   lastBootstrapFetch, stored, sock, theDomain, fn>>

\* the requests of two calls at a time: a name whose RDAP server is known
\* from the bootstrap document only, on the automatic path (the second call
\* with either spelling of that data source) and with the generic WHOIS
\* query
TwoQueries == { <<"example", "io">> }
TwoKinds == {<<"domain", "rdap">>, <<"domain", "whois">>}

\* the kinds of request that have the cache key of request r
SameKey(r) ==
    { kind \in RequestKinds :
        cacheKey(r.query, kind[1], kind[2])
          = cacheKey(r.query, r.type, r.dataSource) }

\* a resolve begins; the second one begins while the first is suspended at
\* an await, and has the cache key of the first (the name has no WHOIS host
\* in the tables, so that no registry query goes over TCP)
ResolveTwo ==
    /\ pc = "idle"
    /\ req.kind = ""
    /\ theDomain \in TwoQueries
    /\ \/ /\ ncalls = 0
          /\ \E kind \in TwoKinds :
                Install(performWhoisQuery(Cur, theDomain, kind[1], kind[2]))
       \/ /\ ncalls = 1
          /\ peer.pc # "idle"
          /\ \E kind \in SameKey(peer.req) :
                Install(performWhoisQuery(Cur, theDomain, kind[1], kind[2]))

NextTwo ==
    \/ ResolveTwo
    \/ Swap
    \/ BootstrapReturn
    \/ RdapRegistryReturn
    \/ RdapRegistrarReturn
    \/ RegistryExecReturn
    \/ RegistrarTcpReturn
    \/ RegistrarExecReturn
    \/ FallbackReturn
    \/ StandardReturn

SpecTwo == Init /\ [][NextTwo]_vars

\* time passes while the first resolve is suspended at an await and before
\* the second one begins: less than the ten seconds a bootstrap fetch may
\* take
WaitTick ==
    /\ pc = "idle"
    /\ peer.pc # "idle"
    /\ ncalls = 1
    /\ ticks < MaxTicks
    /\ \E dt \in {1000, 5 * 1000} : now' = now + dt
    /\ ticks' = ticks + 1
    /\ UNCHANGED <<ncalls, cache, rdapCache, dynamicRdapMap, lastBootstrapFetch,
                   pc, req, loc, calls, inflight, ret, stored, sock, theDomain,
                   peer, fn>>

\* two resolves of one name on the automatic path, the second beginning
\* while the first is suspended at an await
ResolveOverlap ==
    /\ pc = "idle"
    /\ req.kind = ""
    /\ theDomain \in TwoQueries
    /\ ncalls = 0 \/ (ncalls = 1 /\ peer.pc # "idle")
    /\ Install(performWhoisQuery(Cur, theDomain, "domain", "rdap"))

NextOverlap ==
    \/ ResolveOverlap
    \/ WaitTick
    \/ Swap
    \/ BootstrapReturn
    \/ RdapRegistryReturn
    \/ RdapRegistrarReturn
    \/ RegistryExecReturn
    \/ RegistrarTcpReturn
    \/ RegistrarExecReturn
    \/ FallbackReturn

SpecOverlap == Init /\ [][NextOverlap]_vars

SockOpen == sock.phase # "unused" /\ ~sock.destroyed /\ ~sock.closed

SockFrame ==
    UNCHANGED <<now, ticks, ncalls, cache, rdapCache, dynamicRdapMap,
                lastBootstrapFetch, pc, req, loc, calls, inflight, ret, stored,
                theDomain, peer, fn>>

\* tcpWhoisQuery is called: the socket is created and starts to connect
TcpStart ==
    /\ sock.phase = "unused"
    /\ sock' = [sock EXCEPT !.phase = "connecting"]
    /\ SockFrame

\* the connection is established and the query line is written
TcpConnect ==
    /\ SockOpen
    /\ sock.phase = "connecting"
    /\ sock' = [sock EXCEPT !.phase = "connected", !.idle = 0]
    /\ SockFrame

TcpData ==
    /\ SockOpen
    /\ sock.phase = "connected"
    /\ ~sock.ended
    /\ Len(sock.chunks) < MaxChunks
    /\ \E data \in Chunks : sock' = [OnData(sock, data) EXCEPT !.idle = 0]
    /\ SockFrame

\* the server closed its side; the event may already be queued when the
\* socket is destroyed
TcpEnd ==
    /\ sock.phase = "connected"
    /\ ~sock.ended
    /\ ~sock.closed
    /\ sock' = OnEnd([sock EXCEPT !.ended = TRUE])
    /\ SockFrame

\* the socket is closed: after its end, after its destruction, or with
\* neither (the case the 'close' handler is written for)
TcpClose ==
    /\ sock.phase # "unused"
    /\ ~sock.closed
    /\ sock' = OnClose([sock EXCEPT !.closed = TRUE, !.destroyed = TRUE])
    /\ SockFrame

TcpTimeout ==
    /\ SockOpen
    /\ sock.idle >= timeoutMs
    /\ sock' = OnTimeout([sock EXCEPT
                            !.quiet = ~sock.ended /\ Len(sock.chunks) = 0])
    /\ SockFrame

TcpError ==
    /\ SockOpen
    /\ sock' = OnError(sock)
    /\ SockFrame

\* time passes on an open socket; the timer fires no later than at timeoutMs
TcpTick ==
    /\ SockOpen
    /\ sock.idle < timeoutMs
    /\ sock.steps < MaxSockSteps
    /\ sock' = [sock EXCEPT !.idle = @ + SockStep, !.steps = @ + 1]
    /\ SockFrame

NextTcp ==
    \/ TcpStart
    \/ TcpConnect
    \/ TcpData
    \/ TcpEnd
    \/ TcpClose
    \/ TcpTimeout
    \/ TcpError
    \/ TcpTick

SpecTcp == Init /\ [][NextTcp]_vars

\* the event loop delivers every event that is due: a step is taken as
\* long as one is possible
SpecTcpLive == SpecTcp /\ WF_vars(NextTcp)

(***************************************************************************)
(* The RDAP parser (rdap-parser.ts).  An RDAP document has ldhName, handle *)
(* and port43 (strings, <<>> when missing), status, nameservers and        *)
(* entities (has = the member is there), and events.  An eventAction is    *)
(* one token; an entity has roles, a vcardArray and a port43.  A property  *)
(* of the parsed data that is undefined is left out of the function.  Of   *)
(* the members the source copies, secureDNS, the registrar's links and     *)
(* publicIds, tel and adr, and the admin, tech, billing and abuse contacts *)
(* are left out.                                                           *)
(***************************************************************************)
ToUpperCase(tok) ==
    CASE tok = "example.info" -> "EXAMPLE.INFO"
      [] tok = "ns1.example.info" -> "NS1.EXAMPLE.INFO"
      [] OTHER -> tok

UpperSeq(s) == [i \in 1..Len(s) |-> ToUpperCase(s[i])]

NoVCard == [name |-> <<>>, organization |-> <<>>, email |-> <<>>]

RECURSIVE VCardFrom(_, _, _)
VCardFrom(result, props, k) ==
    IF k > Len(props) THEN result
    ELSE LET name == ToLowerCase(props[k].name)
             value == props[k].value
         IN  VCardFrom(CASE name = "fn" -> [result EXCEPT !.name = value]
                         [] name = "org" -> [result EXCEPT !.organization = value]
                         [] name = "email" -> [result EXCEPT !.email = value]
                         [] OTHER -> result,
                       props, k + 1)

parseVCard(vcardArray) ==
    IF ~vcardArray.has THEN NoVCard
    ELSE VCardFrom(NoVCard, vcardArray.props, 1)

\* entities.find(entity => entity.roles && entity.roles.includes(role))
findEntityByRole(entities, role) ==
    IF ~entities.has THEN Null
    ELSE Find(entities.v, {i \in 1..Len(entities.v) : role \in entities.v[i].roles})

\* the needles of parseEvents that the lower-cased action contains
Contained(action) ==
    CASE action = "registration" -> {"registration"}
      [] action = "reregistration" -> {"registration"}
      [] action = "created" -> {"create"}
      [] action = "expiration" -> {"expiration"}
      [] action = "expiry" -> {"expiry"}
      [] action = "expired" -> {"expire"}
      [] action = "registration expiration" -> {"registration", "expiration"}
      [] action = "last update" -> {"last update"}
      [] action = "last changed" -> {"last changed"}
      [] action = "last update of rdap database" ->
             {"last update of rdap database", "last update"}
      [] OTHER -> {}

\* result.<key> = value; a missing value leaves the property undefined
SetField(result, key, value) ==
    IF value = <<>> THEN [k \in (DOMAIN result) \ {key} |-> result[k]]
    ELSE Put(result, key, [isArray |-> FALSE, v |-> value])

RECURSIVE EventsFrom(_, _, _)
EventsFrom(result, events, k) ==
    IF k > Len(events) THEN result
    ELSE LET action == ToLowerCase(events[k].eventAction)
             has == Contained(action)
             date == events[k].eventDate
         IN  EventsFrom(
               IF "registration" \in has \/ action = "created" \/ "create" \in has
               THEN SetField(result, <<"creation", "date">>, date)
               ELSE IF "expiration" \in has \/ "expiry" \in has \/ "expire" \in has
               THEN SetField(result, <<"registry", "expiry", "date">>, date)
               ELSE IF \/ "last changed" \in has
                       \/ "last update of rdap database" \in has
                       \/ "last update of whois database" \in has
                       \/ "last update" \in has
                       \/ action = "update"
                       \/ action = "updated"
               THEN SetField(result, <<"updated", "date">>, date)
               ELSE result,
               events, k + 1)

parseEvents_skipFirst(events) == EventsFrom(<<>>, events, 2)

parseEvents(events) == EventsFrom(<<>>, events, 1)

\* Object.assign(result, eventData)
Assign(result, data) ==
    [k \in (DOMAIN result) \cup (DOMAIN data) |->
        IF k \in DOMAIN data THEN data[k] ELSE result[k]]

\* .map(ns => ns.ldhName).filter(name => name)
RECURSIVE LdhNames(_)
LdhNames(nameservers) ==
    IF Len(nameservers) = 0 THEN <<>>
    ELSE IF Head(nameservers).ldhName = <<>> THEN LdhNames(Tail(nameservers))
    ELSE <<Head(nameservers).ldhName>> \o LdhNames(Tail(nameservers))

parseRDAPResponse(rdapData) ==
    LET r1 == IF rdapData.ldhName # <<>>
              THEN SetField(<<>>, <<"domain", "name">>, UpperSeq(rdapData.ldhName))
              ELSE <<>>
        r2 == IF rdapData.handle # <<>>
              THEN SetField(r1, <<"registry", "domain", "id">>, rdapData.handle)
              ELSE r1
        r3 == IF rdapData.status.has
              THEN Put(r2, <<"domain", "status">>,
                       [isArray |-> TRUE, v |-> rdapData.status.v])
              ELSE r2
        r4 == Assign(r3, parseEvents(rdapData.events))
        r5 == IF rdapData.nameservers.has
              THEN Put(r4, <<"name", "server">>,
                       [isArray |-> TRUE, v |-> LdhNames(rdapData.nameservers.v)])
              ELSE r4
        registrarEntity == findEntityByRole(rdapData.entities, "registrar")
        registrarInfo == parseVCard(registrarEntity.vcardArray)
        r6 == IF registrarEntity # Null /\ registrarEntity.vcardArray.has
              THEN SetField(r5, <<"registrar">>,
                            IF registrarInfo.name # <<>> THEN registrarInfo.name
                            ELSE registrarInfo.organization)
              ELSE r5
        r7 == IF registrarEntity # Null /\ registrarEntity.port43 # <<>>
              THEN SetField(r6, <<"registrar", "whois", "server">>,
                            registrarEntity.port43)
              ELSE r6
        registrantEntity == findEntityByRole(rdapData.entities, "registrant")
        registrantInfo == parseVCard(registrantEntity.vcardArray)
        r8 == IF registrantEntity # Null /\ registrantEntity.vcardArray.has
              THEN SetField(SetField(r7, <<"registrant", "name">>,
                                     registrantInfo.name),
                            <<"registrant", "email">>, registrantInfo.email)
              ELSE r7
    IN  IF <<"registrar", "whois", "server">> \notin DOMAIN r8
           /\ rdapData.port43 # <<>>
        THEN SetField(r8, <<"registrar", "whois", "server">>, rdapData.port43)
        ELSE r8

\* `Label: ${value}` of one string
TextLine(label, value) == label \o <<":">> \o value

\* if (parsedData.<key>) lines.push(`Label: ${parsedData.<key>}`)
StringLines(parsedData, key, label) ==
    IF key \in DOMAIN parsedData
    THEN <<TextLine(label, parsedData[key].v)>>
    ELSE <<>>

\* if (parsedData.<key>) parsedData.<key>.forEach(x => lines.push(`Label: ${x}`))
ListLines(parsedData, key, label) ==
    IF key \in DOMAIN parsedData
    THEN [i \in 1..Len(parsedData[key].v) |-> TextLine(label, parsedData[key].v[i])]
    ELSE <<>>

rdapToWhoisText(parsedData) ==
    StringLines(parsedData, <<"domain", "name">>, <<"Domain", "Name">>)
    \o StringLines(parsedData, <<"registry", "domain", "id">>,
                   <<"Registry", "Domain", "ID">>)
    \o StringLines(parsedData, <<"registrar">>, <<"Registrar">>)
    \o StringLines(parsedData, <<"registrar", "whois", "server">>,
                   <<"Registrar", "WHOIS", "Server">>)
    \o StringLines(parsedData, <<"updated", "date">>, <<"Updated", "Date">>)
    \o StringLines(parsedData, <<"creation", "date">>, <<"Creation", "Date">>)
    \o StringLines(parsedData, <<"registry", "expiry", "date">>,
                   <<"Registry", "Expiry", "Date">>)
    \o ListLines(parsedData, <<"domain", "status">>, <<"Domain", "Status">>)
    \o ListLines(parsedData, <<"name", "server">>, <<"Name", "Server">>)
    \o StringLines(parsedData, <<"registrant", "name">>, <<"Registrant", "Name">>)
    \o StringLines(parsedData, <<"registrant", "email">>,
                   <<"Registrant", "Email">>)

(***************************************************************************)
(* Calls of the pure functions of the route and of the RDAP parser on      *)
(* inputs of their own: one call per behaviour.                            *)
(***************************************************************************)
FnFrame ==
    UNCHANGED <<now, ticks, ncalls, cache, rdapCache, dynamicRdapMap,
                lastBootstrapFetch, pc, req, loc, calls, inflight, ret, stored,
                sock, theDomain, peer>>

\* the lines a WHOIS text given to parseWhoisResult is made of: two name
\* servers, a name server line without a value, another key, no colon
ParseLinesOf ==
    { <<"Name", "Server", ":", "NS1.EXAMPLE.INFO">>,
      <<"Name", "Server", ":", "NS2.EXAMPLE.INFO">>,
      <<"Name", "Server", ":">>,
      <<"Domain", "Name", ":", "EXAMPLE.INFO">> }

ParseInputs == UNION {[1..n -> ParseLinesOf] : n \in 0..MaxLines}

\* parseWhoisResult(raw, "domain")
ParseCall ==
    /\ fn.op = "none"
    /\ \E raw \in ParseInputs :
          fn' = [op |-> "parse", in |-> raw, out |-> parseWhoisResult(raw)]
    /\ FnFrame

\* the RDAP documents given to the parser: two dates, the event actions of
\* the three date families and one of none, a registrar named by fn, by fn
\* with a blank at its end, by org only, or missing
Date2020 == <<"2020-01-01T00", ":", "00", ":", "00Z">>
Date2030 == <<"2030-01-01T00", ":", "00", ":", "00Z">>

EventActions ==
    {"Registration", "reregistration", "expiration", "last changed",
     "last update of RDAP database", "transfer"}

RdapEvents == [eventAction : EventActions, eventDate : {Date2020, Date2030}]

EventLists == UNION {[1..n -> RdapEvents] : n \in 0..MaxEvents}

VCardOf(props) == [has |-> TRUE, props |-> props]

RegistrarEntities ==
    { [roles |-> {"registrar"}, port43 |-> <<"whois.registrar.example">>,
       vcardArray |-> VCardOf(<< [name |-> "fn",
                                  value |-> <<"Example", "Registrar">>] >>)],
      [roles |-> {"registrar"}, port43 |-> <<>>,
       vcardArray |-> VCardOf(<< [name |-> "fn",
                                  value |-> <<"Example", "Registrar", " ">>] >>)],
      [roles |-> {"registrar", "abuse"}, port43 |-> <<>>,
       vcardArray |-> VCardOf(<< [name |-> "org",
                                  value |-> <<"Example", "Registry">>] >>)] }

RegistrantEntity ==
    [roles |-> {"registrant"}, port43 |-> <<>>,
     vcardArray |-> VCardOf(<< [name |-> "fn", value |-> <<"John">>] >>)]

EntityLists ==
    {[has |-> FALSE, v |-> <<>>], [has |-> TRUE, v |-> <<RegistrantEntity>>]}
    \cup {[has |-> TRUE, v |-> <<RegistrantEntity, e>>] : e \in RegistrarEntities}

RdapDocs ==
    [ldhName : {<<>>, <<"example.info">>},
     handle : {<<"D1-INFO">>},
     port43 : {<<>>},
     status : {[has |-> TRUE, v |-> << <<"active">> >>]},
     nameservers : {[has |-> TRUE,
                     v |-> << [ldhName |-> <<"ns1.example.info">>],
                              [ldhName |-> <<>>] >>],
                    [has |-> TRUE,
                     v |-> << [ldhName |-> <<"ns2.example.info">>],
                              [ldhName |-> <<"ns1.example.info">>] >>]},
     events : EventLists,
     entities : EntityLists]

CanonicalKeys ==
    {<<"domain", "name">>, <<"registrar">>, <<"creation", "date">>,
     <<"registry", "expiry", "date">>, <<"updated", "date">>}

\* a WHOIS text written by hand from the values under the canonical keys:
\* the lines in another order, among lines of other keys
HandText(parsedData) ==
    <<TextLine(<<"Registrant", "Name">>, <<"John">>)>>
    \o StringLines(parsedData, <<"registry", "expiry", "date">>,
                   <<"Registry", "Expiry", "Date">>)
    \o StringLines(parsedData, <<"creation", "date">>, <<"Creation", "Date">>)
    \o StringLines(parsedData, <<"updated", "date">>, <<"Updated", "Date">>)
    \o StringLines(parsedData, <<"registrar">>, <<"Registrar">>)
    \o StringLines(parsedData, <<"domain", "name">>, <<"Domain", "Name">>)

\* parseRDAPResponse(rdapData) beside parseWhoisResult of a WHOIS text of
\* the same record: the one rdapToWhoisText makes or one written by hand
NormalizeCall ==
    /\ fn.op = "none"
    /\ \E rdapData \in RdapDocs, hand \in BOOLEAN :
          LET parsedData == parseRDAPResponse(rdapData)
              text == IF hand THEN HandText(parsedData)
                      ELSE rdapToWhoisText(parsedData)
          IN  fn' = [op |-> "normalize", in |-> rdapData, hand |-> hand,
                     rdap |-> parsedData, text |-> text,
                     whois |-> parseWhoisResult(text)]
    /\ FnFrame

\* The Chinese literals of the source are written in pinyin: "yuming
\* weizhuce" (the domain is not registered), "weizhuce" (not registered),
\* "zan buzhichi gai houzhui" (this suffix is not supported for now),
\* "weizhi" (unknown), "xitong wei anzhuang whois" (whois is not installed).
\* the message of the error performWhoisQuery rejects with, as the pieces it
\* is put together from: the literals of the source, the tld or the query
\* labels, and the text the whois command wrote to stderr.  The message of
\* a failed execAsync(command) begins with the command line.
ErrorMessage(err, query, stderr) ==
    CASE err = "DomainNotRegistered" -> <<"yuming weizhuce">>
      [] err = "UnsupportedSuffix" ->
             <<"zan buzhichi gai houzhui (.">>
             \o <<IF ValidationTld(query) # "" THEN ValidationTld(query) ELSE "weizhi">>
             \o <<")">>
      [] err = "WhoisNotInstalled" ->
             <<"xitong wei anzhuang whois">>
      [] err = "Stderr" -> stderr
      [] OTHER -> <<"Command failed: whois \"">> \o query \o <<"\"">> \o stderr

\* msg.includes(weizhuce) and msg.includes(zan buzhichi), by the pieces that
\* contain the needle
IncludesUnregistered(msg) ==
    \E i \in 1..Len(msg) : msg[i] \in {"yuming weizhuce", "weizhuce"}

IncludesNotSupported(msg) ==
    \E i \in 1..Len(msg) : msg[i] = "zan buzhichi gai houzhui (."

\* the catch block of POST and of GET
StatusOf(msg) ==
    LET isNotSupported == IncludesNotSupported(msg)
        isUnregistered == IncludesUnregistered(msg)
    IN  IF isUnregistered THEN 404 ELSE IF isNotSupported THEN 400 ELSE 500

\* the queries sent to the handlers: those of the resolves and a name with
\* a Chinese label
HandlerQueries == Queries \cup {<<"weizhuce", "com">>, <<"example", "zz">>}

\* POST validates type (domain, ip or asn; 'domain' by default) and passes
\* dataSource on; GET passes type as it is ('auto' by default), no dataSource
HandlerTypes(handler) ==
    IF handler = "POST" THEN {"domain", "ip"} ELSE {"auto", "domain"}

\* what the chain inside performWhoisQuery throws, before its catch block
ChainErrors == {"DomainNotRegistered", "ExecNotFound", "ExecFailed", "Stderr"}

StderrTexts == {<<"connect: Network is unreachable">>}

\* one request to POST or GET whose performWhoisQuery rejects
HandlerCall ==
    /\ fn.op = "none"
    /\ \E handler \in {"POST", "GET"}, query \in HandlerQueries,
          err \in ChainErrors, stderr \in StderrTexts :
        \E type \in HandlerTypes(handler) :
          LET C == [Cur EXCEPT !.req = [query |-> query, type |-> type,
                                        dataSource |-> ""]]
              thrown == MapError(C, err)
              msg == ErrorMessage(thrown, query,
                                  IF err = "ExecNotFound"
                                  THEN <<"/bin/sh: whois: not found">>
                                  ELSE stderr)
          IN  /\ err = "DomainNotRegistered" => type = "domain"
              /\ fn' = [op |-> "handler", handler |-> handler, type |-> type,
                        query |-> query, thrown |-> thrown, message |-> msg,
                        status |-> StatusOf(msg)]
    /\ FnFrame

\* texts a registrar's host may answer with: a registrant's name, an admin
\* contact's e-mail address, a contact line that is none of name, e-mail
\* and phone, a registrant name without a value, and a notice that the
\* name is not registered
TextEmail ==
    << <<"Domain", "Name", ":", "EXAMPLE.INFO">>,
       <<"admin", "Email", ":", "a@example.info">> >>

TextContact ==
    << <<"Domain", "Name", ":", "EXAMPLE.INFO">>,
       <<"Registrant", "contact", ":", "John">> >>

TextBlank ==
    << <<"Domain", "Name", ":", "EXAMPLE.INFO">>,
       <<"Registrant", "Name", ":">> >>

RegistrarTexts == {TextRegistrar, TextEmail, TextContact, TextBlank, TextNoMatch}

RegistrarTcpResponses ==
    {[kind |-> "ok", text |-> t] : t \in RegistrarTexts}
    \cup {[kind |-> "error", text |-> <<>>]}

RegistrarExecResponses ==
    {[kind |-> "ok", stdout |-> t] : t \in RegistrarTexts}
    \cup {[kind |-> k, stdout |-> <<>>] : k \in {"stderr", "failed"}}

\* performDomainWhoisWithPriority(query) on a resolve that asked for the
\* registry, from its first query to its return or to the generic query of
\* its catch, as a function of what its queries are answered
PriorityCall ==
    /\ fn.op = "none"
    /\ \E query \in Queries, regTcp \in TcpResponses, regExec \in ExecResponses,
          rrTcp \in RegistrarTcpResponses, rrExec \in RegistrarExecResponses :
          LET ThenRegistryTcp(C) ==
                  IF C.pc = "registryTcp" THEN OnRegistryTcp(C, regTcp) ELSE C
              ThenRegistryExec(C) ==
                  IF C.pc = "registryExec" THEN OnRegistryExec(C, regExec) ELSE C
              ThenRegistrarTcp(C) ==
                  IF C.pc = "registrarTcp" THEN OnRegistrarTcp(C, rrTcp) ELSE C
              ThenRegistrarExec(C) ==
                  IF C.pc = "registrarExec" THEN OnRegistrarExec(C, rrExec) ELSE C
              C0 == StartPriority(Enter(Cur, Request("resolve", query, "domain",
                                                     "registry", ""),
                                        "registry"))
              C4 == ThenRegistrarExec(ThenRegistrarTcp(ThenRegistryExec(
                        ThenRegistryTcp(C0))))
          IN  fn' = [op |-> "priority", query |-> query, regTcp |-> regTcp,
                     regExec |-> regExec, rrTcp |-> rrTcp, rrExec |-> rrExec,
                     pc |-> C4.pc, ret |-> C4.ret, calls |-> C4.calls]
    /\ FnFrame

\* the event actions given to parseEvents alone: those of the three date
\* families in their spellings, one that has "expir" and none of the
\* needles of the code, one of two families, and one of none
EventActionsAlone ==
    {"Registration", "created", "expiration", "expiry", "expired", "expiring",
     "registration expiration", "last changed", "last update", "update",
     "Updated", "transfer"}

EventListsAlone ==
    UNION {[1..n -> [eventAction : EventActionsAlone,
                     eventDate : {Date2020, Date2030}]] : n \in 0..MaxEventsAlone}

\* parseEvents(events)
EventsCall ==
    /\ fn.op = "none"
    /\ \E events \in EventListsAlone :
          fn' = [op |-> "events", in |-> events, out |-> parseEvents(events)]
    /\ FnFrame

\* the characters of the class in validateInput's pattern, which ends at the
\* first unescaped ']': ; & | ` $ ( ) { } [ and the backslash (the backquote
\* is spelled out)
ClassChars == {";", "&", "|", "backquote", "$", "(", ")", "{", "}", "[", "\\"}

\* /[;&|`$(){}[\\]\\]/.test(str): a character of the class, then a
\* backslash, then ']'
PatternTest(str) ==
    \E i \in 1..(Len(str) - 2) :
        /\ str[i] \in ClassChars
        /\ str[i + 1] = "\\"
        /\ str[i + 2] = "]"

validateInput(query, type) ==
    IF query = <<>> THEN [valid |-> FALSE, error |-> "chaxun neirong buneng weikong"]
    ELSE LET trimmedQuery == Trim(query)
         IN  IF Len(trimmedQuery) = 0
             THEN [valid |-> FALSE, error |-> "chaxun neirong buneng weikong"]
             ELSE IF type \notin {"domain", "ip", "asn"}
             THEN [valid |-> FALSE, error |-> "bu zhichi de chaxun leixing"]
             ELSE IF PatternTest(trimmedQuery)
             THEN [valid |-> FALSE, error |-> "chaxun neirong baohan feifa zifu"]
             ELSE [valid |-> TRUE, error |-> ""]

\* the command performStandardWhoisQuery hands to the shell, character by
\* character
StandardCommand(query) == <<"whois", " ", "\"">> \o query \o <<"\"">>

\* the characters the query strings sent to the handlers are made of, and
\* the strings
MaxQueryLen == 3

QueryChars == {"example.com", " ", ";", "\\", "]"}

RECURSIVE StringsUpTo(_)
StringsUpTo(n) ==
    IF n = 0 THEN {<<>>}
    ELSE LET shorter == StringsUpTo(n - 1)
         IN  shorter \cup {Append(str, c) : str \in shorter, c \in QueryChars}

\* POST and GET on an empty result cache with a type that is not 'domain':
\* POST answers 400 unless validateInput accepts the query and then calls
\* performWhoisQuery(query.trim(), type); GET answers 400 for an empty q
\* and else calls performWhoisQuery(query, type); performWhoisQuery hands
\* the query to performStandardWhoisQuery
EntryCall ==
    /\ fn.op = "none"
    /\ \E handler \in {"POST", "GET"}, query \in StringsUpTo(MaxQueryLen),
          type \in {"ip", "auto"} :
          LET validation == validateInput(query, type)
              validated == handler = "POST"
              passed == IF handler = "POST" THEN validation.valid ELSE query # <<>>
              given == IF handler = "POST" THEN Trim(query) ELSE query
          IN  fn' = [op |-> "entry", handler |-> handler, type |-> type,
                     in |-> query, validated |-> validated,
                     error |-> IF validated THEN validation.error ELSE "",
                     query |-> IF passed THEN given ELSE <<>>,
                     command |-> IF passed THEN StandardCommand(given) ELSE <<>>]
    /\ FnFrame

NextFn ==
    \/ ParseCall
    \/ HandlerCall
    \/ EventsCall
    \/ EntryCall
    \/ PriorityCall
    \/ NormalizeCall

SpecFn == Init /\ [][NextFn]_vars

(***************************************************************************)
(* Properties of performWhoisQuery and performDomainWhoisWithPriority.     *)
(***************************************************************************)
\* C1: after a resolve stored its record, a later resolve of the same
\* (type, query, data source) that starts less than CACHE_TTL after the
\* store returns that very record and issues no network call.
C1_CachedResolve ==
    ( /\ req.kind = "resolve"
      /\ Triple(req) \in DOMAIN stored
      /\ stored[Triple(req)].call < ncalls
      /\ now - stored[Triple(req)].at < CACHE_TTL )
    => ( /\ pc = "idle"
         /\ calls = <<>>
         /\ inflight = {}
         /\ ret.status = "ok"
         /\ ret.value = stored[Triple(req)].data )

\* a second resolve, four minutes after the first stored, was answered
C1_Witness ==
    /\ req.kind = "resolve"
    /\ ncalls = 2
    /\ Triple(req) \in DOMAIN stored
    /\ stored[Triple(req)].call = 1
    /\ now = stored[Triple(req)].at + 4 * Minute
    /\ ret.status = "ok"
    /\ ret.fromCache

\* C2: a resolution whose registry WHOIS text held an unregistered phrase
\* ends with the error DomainNotRegistered, whatever a later source answers.
C2_RegistryUnregisteredEnds ==
    (req.kind = "resolve" /\ loc.regUnreg /\ pc = "idle")
    => (ret.status = "error" /\ ret.error = "DomainNotRegistered")

\* C3: in a resolution whose registry WHOIS text held an unregistered
\* phrase, no WHOIS query to a registrar host is issued, by TCP or by
\* whois -h.
C3_NoRegistrarQuery ==
    (req.kind = "resolve" /\ loc.regUnreg)
    => /\ pc \notin {"registrarTcp", "registrarExec"}
       /\ \A i \in 1..Len(calls) :
             /\ calls[i].at \notin {"registrarTcp", "registrarExec"}
             /\ calls[i].host # <<"whois.registrar.example">>

\* the registry answered with an unregistered text that names a registrar
\* WHOIS server, and the resolution has ended
C3_Witness ==
    /\ req.kind = "resolve"
    /\ loc.regUnreg
    /\ pc = "idle"
    /\ ret.status # "none"
    /\ \E i \in 1..Len(calls) : calls[i].at \in {"registryTcp", "registryExec"}
    /\ extractRegistrarWhoisServer(TextNoMatch) = <<"whois.registrar.example">>

\* C4: once the priority WHOIS step has found the domain unregistered, no
\* generic WHOIS query follows: neither the one of the step's own catch nor
\* the one of performWhoisQuery.
C4_ChainStops ==
    (req.kind = "resolve" /\ loc.regUnreg)
    => /\ pc \notin {"fallback", "standard"}
       /\ \A i \in 1..Len(calls) : calls[i].at \notin {"fallback", "standard"}

\* C5: a resolution in which the registrar host's text held an unregistered
\* phrase, and the registry's text did not, ends with the error
\* DomainNotRegistered.
C5_RegistrarUnregisteredEnds ==
    (req.kind = "resolve" /\ loc.rrUnreg /\ ~loc.regUnreg /\ pc = "idle")
    => (ret.status = "error" /\ ret.error = "DomainNotRegistered")

(***************************************************************************)
(* Properties of queryDomainRDAP.                                          *)
(***************************************************************************)
\* C6: for a top-level domain of the static table RDAP_SERVERS, the list of
\* candidate servers starts with the static URL, whatever the bootstrap
\* directory holds for that top-level domain.
C6_StaticFirst ==
    (Len(loc.servers) > 0 /\ RDAP_SERVERS(getTLD(loc.asciiDomain)) # NoUrl)
    => loc.servers[1] = RDAP_SERVERS(getTLD(loc.asciiDomain))

\* C7: when the first candidate answers 2xx with a registry response that
\* holds a related link of type application/rdap+json to the registrar (at
\* the top level or in the registrar entity), a call of queryDomainRDAP that
\* does not prefer the registry sends its next query to the registrar; when
\* that endpoint answers 2xx with a JSON body, the call has issued exactly
\* two RDAP domain queries, to the registry and then to the registrar, and
\* returns the registrar's answer tagged rdapSource = registrar together
\* with the registry's answer.
C7_TwoQueries ==
    [][
        LET IsRelatedRdap(link) ==
                /\ link.rel = "related"
                /\ ToLowerCase(link.type) = "application/rdap+json"
                /\ link.href # NoUrl
            HasRegistrarLink(body) ==
                \/ \E i \in 1..Len(body.links) : IsRelatedRdap(body.links[i])
                \/ \E e \in 1..Len(body.entities) :
                      /\ "registrar" \in body.entities[e].roles
                      /\ \E i \in 1..Len(body.entities[e].links) :
                            IsRelatedRdap(body.entities[e].links[i])
            queries == SelectSeq(calls', LAMBDA c : c.kind # "bootstrap")
        IN  /\ ( /\ req.kind = "rdap"
                 /\ req.preferSource # "registry"
                 /\ pc = "rdapRegistry"
                 /\ loc.idx = 1
                 /\ calls'[Len(calls)].ok
                 /\ HasRegistrarLink(IF pc' # "idle" THEN loc'.registryData
                                     ELSE IF ret'.status = "ok"
                                     THEN ret'.value.registryRaw
                                     ELSE NoBody) )
               => ( /\ pc' = "rdapRegistrar"
                    /\ Len(queries) = 2
                    /\ queries[1].kind = "rdap-registry"
                    /\ queries[1].url = loc.servers[1]
                    /\ queries[2].kind = "rdap-registrar"
                    /\ queries[2].url.origin = RegistrarRecordUrl.origin
                    /\ queries[2] \in inflight' )
            /\ ( /\ req.kind = "rdap"
                 /\ pc = "rdapRegistrar"
                 /\ loc.idx = 1
                 /\ HasRegistrarLink(loc.registryData)
                 /\ calls'[Len(calls)].ok )
               => ( /\ pc' = "idle"
                    /\ Len(queries) = 2
                    /\ ret'.status = "ok"
                    /\ ret'.value.rdapSource = "registrar"
                    /\ ret'.value.body \in RegistrarBodies
                    /\ ret'.value.registrarRaw = ret'.value.body
                    /\ ret'.value.registryRaw = loc.registryData )
    ]_vars

\* a direct call ended with the registrar's answer after the first
\* candidate answered with a link
C7_Witness ==
    /\ req.kind = "rdap"
    /\ pc = "idle"
    /\ ret.status = "ok"
    /\ ~ret.fromCache
    /\ ret.value.rdapSource = "registrar"
    /\ extractRegistrarRdapUrl(ret.value.registryRaw) # NoUrl
    /\ Len(SelectSeq(calls, LAMBDA c : c.kind = "rdap-registry")) = 1

\* C8: a call of queryDomainRDAP with preferSource = registry sends no
\* query to a registrar's endpoint: its RDAP queries go to candidate
\* registry servers only.
C8_RegistryOnly ==
    (req.kind = "rdap" /\ req.preferSource = "registry")
    => /\ pc # "rdapRegistrar"
       /\ \A i \in 1..Len(calls) :
             /\ calls[i].kind \in {"bootstrap", "rdap-registry"}
             /\ calls[i].kind = "rdap-registry" =>
                   LET servers == getRDAPServers(dynamicRdapMap,
                                                 toASCII(req.query))
                   IN  \E k \in 1..Len(servers) : calls[i].url = servers[k]

\* a call with preferSource = registry returned a registry answer that
\* links to the registrar
C8_Witness ==
    /\ req.kind = "rdap"
    /\ req.preferSource = "registry"
    /\ pc = "idle"
    /\ ret.status = "ok"
    /\ ~ret.fromCache
    /\ extractRegistrarRdapUrl(ret.value.body) # NoUrl

(***************************************************************************)
(* Properties of tcpWhoisQuery.                                            *)
(***************************************************************************)
\* C9: when the timeout fires on a socket on which the server sent no data
\* and which it kept open, the promise is rejected with the timeout error
\* and the socket is destroyed, and no later end or close event makes the
\* promise resolve.
C9_TimeoutFails ==
    (sock.timedOut /\ sock.quiet)
    => /\ sock.promise = "rejected"
       /\ sock.error = "timeout"
       /\ sock.destroyed

\* after such a timeout both the end and the close event were delivered
C9_Witness ==
    /\ sock.timedOut
    /\ sock.quiet
    /\ sock.ended
    /\ sock.closed
    /\ sock.promise = "rejected"

\* C27: every call of tcpWhoisQuery is settled in the end, whatever the
\* order of the socket's events, also when the connection is closed without
\* data and without an end event: the promise does not stay pending.
C27_AlwaysSettles ==
    (sock.phase # "unused") ~> (sock.promise # "pending")

\* the promise of a call is settled once its socket is closed, unless the
\* close came with no data received and without end, timeout or error
C27_SettledUnlessBareClose ==
    (sock.closed /\ sock.promise = "pending")
    => /\ Len(sock.chunks) = 0
       /\ ~sock.ended
       /\ ~sock.timedOut

\* a closed socket whose promise is pending
C27_PendingWitness ==
    /\ sock.closed
    /\ sock.promise = "pending"

\* the time since tcpWhoisQuery was called
Elapsed == sock.steps * SockStep

\* C28: one timeout covers the connect and the whole read phase: a call
\* that is not over timeoutMs after its start fails with the timeout error
\* and its socket is destroyed, even when data keep arriving at intervals
\* shorter than timeoutMs; no call is pending on an open socket later than
\* timeoutMs after its start.
C28_SingleTimeout ==
    (sock.phase # "unused" /\ Elapsed > timeoutMs)
    => /\ sock.promise # "pending"
       /\ (~sock.ended /\ ~sock.closed /\ sock.error # "error")
             => /\ sock.promise = "rejected"
                /\ sock.error = "timeout"
                /\ sock.destroyed

\* what the timer of socket.setTimeout bounds is the time without activity
C28_IdleTimeout ==
    (SockOpen /\ sock.promise = "pending") => sock.idle <= timeoutMs

\* a call still pending on an open socket later than timeoutMs after its
\* start, with data received
C28_LateWitness ==
    /\ SockOpen
    /\ sock.promise = "pending"
    /\ Elapsed > timeoutMs
    /\ Len(sock.chunks) > 0

\* where chunk k starts in the text of all chunks
RECURSIVE Offset(_, _)
Offset(chunks, k) ==
    IF k <= 1 THEN 0 ELSE Offset(chunks, k - 1) + Len(chunks[k - 1])

\* raw is the chunks one after the other, in the order they arrived
InArrivalOrder(raw, chunks) ==
    /\ Len(raw) = Offset(chunks, Len(chunks) + 1)
    /\ \A k \in 1..Len(chunks) :
          SubSeq(raw, Offset(chunks, k) + 1,
                 Offset(chunks, k) + Len(chunks[k])) = chunks[k]

\* C29: when the socket is closed with data received and neither end nor
\* timeout nor error before it, the promise is resolved with all chunks
\* received, one after the other in the order of their arrival, none left
\* out; and a settled promise keeps its state and its value whatever
\* event follows, in whichever order end and close arrive.
C29_CloseReturnsData ==
    [][ /\ (/\ ~sock.closed
            /\ sock'.closed
            /\ Len(sock.chunks) > 0
            /\ ~sock.ended
            /\ ~sock.timedOut
            /\ sock.promise = "pending")
           => /\ sock'.promise = "resolved"
              /\ sock'.chunks = sock.chunks
              /\ InArrivalOrder(sock'.value, sock.chunks)
        /\ sock.promise # "pending"
           => /\ sock'.promise = sock.promise
              /\ sock'.value = sock.value
              /\ sock'.error = sock.error ]_vars

\* two different chunks arrived, the socket was closed without end,
\* timeout or error, and the call returned both chunks
C29_Witness ==
    /\ sock.closed
    /\ ~sock.ended
    /\ ~sock.timedOut
    /\ Len(sock.chunks) = 2
    /\ sock.chunks[1] # sock.chunks[2]
    /\ sock.promise = "resolved"
    /\ sock.value = sock.chunks[1] \o sock.chunks[2]

\* a call resolved at the end event, and the close event came after it
C29_EndThenCloseWitness ==
    /\ sock.ended
    /\ sock.closed
    /\ ~sock.timedOut
    /\ Len(sock.chunks) > 0
    /\ sock.promise = "resolved"

(***************************************************************************)
(* The order of the sources in performWhoisQuery.                          *)
(***************************************************************************)
\* C10: a resolve without a requested source (undefined, "rdap" or a value
\* the code does not know, the automatic path) contacts its sources one at
\* a time and in the order RDAP, priority WHOIS (registry host, then
\* registrar host), generic WHOIS: a WHOIS query is sent only after the
\* RDAP step failed, the generic query of the priority step's catch only
\* after the registry query threw, the generic query of performWhoisQuery
\* only after the priority step threw, and never two calls are in flight.
C10_Sequential ==
    (req.kind = "resolve" /\ loc.branch \in {"A", "E"})
    => LET Rank(c) ==
               CASE c.at \in {"bootstrap", "rdapRegistry", "rdapRegistrar"} -> 1
                 [] c.at \in {"registryTcp", "registryExec"} -> 2
                 [] c.at \in {"registrarTcp", "registrarExec"} -> 3
                 [] c.at \in {"fallback", "standard"} -> 4
       IN  /\ Cardinality(inflight) <= 1
           /\ \A i \in 1..Len(calls) : \A j \in i..Len(calls) :
                 Rank(calls[i]) <= Rank(calls[j])
           /\ \A i \in 1..Len(calls) :
                 /\ Rank(calls[i]) > 1 => loc.rdapStep = "failed"
                 /\ calls[i].at = "fallback" =>
                       /\ i > 1
                       /\ Rank(calls[i - 1]) = 2
                       /\ (loc.regUnreg \/ ~calls[i - 1].ok)
                 /\ calls[i].at = "standard" => loc.prioStep = "threw"
           /\ loc.rdapStep \in {"hit", "ok"} =>
                 \A i \in 1..Len(calls) : calls[i].kind \notin {"tcp", "exec"}

\* a default resolve went through RDAP, the registry host and both generic
\* queries, and another one ended in the RDAP step
C10_Witness ==
    /\ req.kind = "resolve"
    /\ loc.branch = "A"
    /\ pc = "idle"
    /\ ret.status = "ok"
    /\ \E i \in 1..Len(calls) : calls[i].at = "rdapRegistry"
    /\ \E i \in 1..Len(calls) : calls[i].at = "registryTcp"
    /\ \E i \in 1..Len(calls) : calls[i].at = "fallback"
    /\ \E i \in 1..Len(calls) : calls[i].at = "standard"

(***************************************************************************)
(* The requested data source.                                              *)
(***************************************************************************)
\* C11: in a resolve with the requested source rdap whose RDAP step failed,
\* no WHOIS query is issued and the resolve ends with an error.
C11_RdapOnly ==
    ( /\ req.kind = "resolve"
      /\ req.type = "domain"
      /\ req.dataSource = "rdap"
      /\ loc.rdapStep = "failed" )
    => /\ \A i \in 1..Len(calls) : calls[i].kind \notin {"tcp", "exec"}
       /\ pc = "idle"
       /\ ret.status = "error"

\* C12: a resolve with the requested source whois issues no RDAP domain
\* query and no fetch of the bootstrap document.
C12_WhoisOnly ==
    (req.kind = "resolve" /\ req.type = "domain" /\ req.dataSource = "whois")
    => /\ loc.rdapStep = "none"
       /\ \A i \in 1..Len(calls) :
             calls[i].kind \notin {"bootstrap", "rdap-registry", "rdap-registrar"}

\* a resolve with the requested source whois got its record from the
\* generic WHOIS query
C12_Witness ==
    /\ req.kind = "resolve"
    /\ req.type = "domain"
    /\ req.dataSource = "whois"
    /\ pc = "idle"
    /\ ret.status = "ok"
    /\ ~ret.fromCache
    /\ Len(calls) = 1
    /\ calls[1].at = "standard"

\* C13: in a resolve of a domain with a requested source other than whois,
\* a WHOIS query is issued only after an RDAP attempt.
C13_RdapBeforeWhois ==
    ( /\ req.kind = "resolve"
      /\ req.type = "domain"
      /\ req.dataSource # "whois"
      /\ \E i \in 1..Len(calls) : calls[i].kind \in {"tcp", "exec"} )
    => loc.rdapStep # "none"

\* C13, as the code has it: with a requested source other than whois,
\* registrar and registry, a WHOIS query is issued only after the RDAP step
\* failed; with the requested source registrar or registry there is no RDAP
\* attempt at all, and the first call is the WHOIS query of the registry.
C13_RdapBeforeWhoisUnlessPriority ==
    (req.kind = "resolve" /\ req.type = "domain")
    => /\ ( /\ req.dataSource \notin {"whois", "registrar", "registry"}
            /\ \E i \in 1..Len(calls) : calls[i].kind \in {"tcp", "exec"} )
          => loc.rdapStep = "failed"
       /\ req.dataSource \in {"registrar", "registry"}
          => /\ loc.rdapStep = "none"
             /\ \A i \in 1..Len(calls) : calls[i].kind \in {"tcp", "exec"}
             /\ Len(calls) > 0 =>
                   calls[1].at \in {"registryTcp", "registryExec"}

\* a resolve with the requested source registrar ended with a record from
\* the WHOIS chain, and an unknown source went from RDAP to WHOIS
C13_Witness ==
    /\ req.kind = "resolve"
    /\ req.type = "domain"
    /\ req.dataSource = "registrar"
    /\ pc = "idle"
    /\ ret.status = "ok"
    /\ ~ret.fromCache
    /\ \E i \in 1..Len(calls) : calls[i].at = "registrarTcp"

C16_NameServersAccumulate ==
    fn.op = "parse" =>
        LET IsNs(line) ==
                /\ Len(line) > 3
                /\ LowerSeq(SubSeq(line, 1, 3)) = <<"name", "server", ":">>
            ns == SelectSeq(fn.in, IsNs)
            values == [i \in 1..Len(ns) |-> SubSeq(ns[i], 4, Len(ns[i]))]
        IN  Len(ns) >= 2 =>
                /\ <<"name", "server">> \in DOMAIN fn.out
                /\ fn.out[<<"name", "server">>].isArray
                /\ fn.out[<<"name", "server">>].v = values

\* three name server lines, another line and a line without value between
C16_Witness ==
    /\ fn.op = "parse"
    /\ fn.in = << <<"Name", "Server", ":", "NS2.EXAMPLE.INFO">>,
                  <<"Domain", "Name", ":", "EXAMPLE.INFO">>,
                  <<"Name", "Server", ":", "NS1.EXAMPLE.INFO">>,
                  <<"Name", "Server", ":", "NS2.EXAMPLE.INFO">> >>
    /\ Len(fn.out[<<"name", "server">>].v) = 3

\* the value a read of parsed[key] gives: undefined (<<>>) for a missing key
ValueAt(parsed, key) ==
    IF key \in DOMAIN parsed THEN parsed[key] ELSE [isArray |-> FALSE, v |-> <<>>]

\* C17: the parsed data of an RDAP document and the parsed data of a WHOIS
\* text of the same record (the text rdapToWhoisText makes of it, or one
\* written by hand with the same values) have the same value under each of
\* the keys domain_name, registrar, creation_date, registry_expiry_date and
\* updated_date.
C17_SchemaConvergence ==
    fn.op = "normalize" =>
        \A key \in CanonicalKeys :
            ValueAt(fn.whois, key) = ValueAt(fn.rdap, key)

\* C17, on the values that have no white space at their ends: there the two
\* paths agree
C17_ConvergesOnTrimmedValues ==
    fn.op = "normalize" =>
        \A key \in CanonicalKeys :
            ValueAt(fn.rdap, key).v = Trim(ValueAt(fn.rdap, key).v)
                => ValueAt(fn.whois, key) = ValueAt(fn.rdap, key)

C17_TrimmedWitness ==
    /\ fn.op = "normalize"
    /\ \A key \in CanonicalKeys : key \in DOMAIN fn.rdap /\ key \in DOMAIN fn.whois
    /\ fn.rdap[<<"registrar">>].v = <<"Example", "Registrar">>

\* C18: a request whose resolve fails with DomainNotRegistered is answered
\* with status 404, one that fails with UnsupportedSuffix with 400, and one
\* that fails in any other way with 500, by POST and by GET alike.
C18_StatusByFailure ==
    fn.op = "handler" =>
        fn.status = (CASE fn.thrown = "DomainNotRegistered" -> 404
                       [] fn.thrown = "UnsupportedSuffix" -> 400
                       [] OTHER -> 500)

\* C18, on the queries that do not contain the text the handlers look for
\* in the message: there the status follows the failure
C18_StatusByFailureOfPlainQuery ==
    (fn.op = "handler" /\ fn.query \in Queries \cup {<<"example", "zz">>}) =>
        fn.status = (CASE fn.thrown = "DomainNotRegistered" -> 404
                       [] fn.thrown = "UnsupportedSuffix" -> 400
                       [] OTHER -> 500)

C18_PlainWitness ==
    /\ fn.op = "handler"
    /\ fn.thrown = "UnsupportedSuffix"
    /\ fn.status = 400

\* the map without the entry of key
Without(map, key) == [k \in (DOMAIN map) \ {key} |-> map[k]]

\* the two configurations are the same but for the entry of key in cache
SameButCache(C, D, key) ==
    /\ Without(C.cache, key) = Without(D.cache, key)
    /\ [C EXCEPT !.cache = <<>>] = [D EXCEPT !.cache = <<>>]

\* the two configurations are the same but for the entry of key in rdapCache
SameButRdapCache(C, D, key) ==
    /\ Without(C.rdapCache, key) = Without(D.rdapCache, key)
    /\ [C EXCEPT !.rdapCache = <<>>] = [D EXCEPT !.rdapCache = <<>>]

\* C19: a resolve that finds a cache entry of age CACHE_TTL or more (in the
\* result cache, or in the RDAP cache when it gets there) does not return
\* it: the step leads where it leads when the key is absent; and a resolve
\* that ends with a fresh result leaves that result in the cache under its
\* key, with the time of the store.
C19_ExpiredAsAbsent ==
    [][ LET key == cacheKey(req'.query, req'.type, req'.dataSource)
            name == toASCII(req'.query)
            entering == ncalls' = ncalls + 1 /\ req'.kind = "resolve"
            after == [Cur EXCEPT !.now = now', !.ncalls = ncalls',
                                 !.cache = cache', !.rdapCache = rdapCache',
                                 !.dynamicRdapMap = dynamicRdapMap',
                                 !.lastBootstrapFetch = lastBootstrapFetch',
                                 !.pc = pc', !.req = req', !.loc = loc',
                                 !.calls = calls', !.inflight = inflight',
                                 !.ret = ret', !.stored = stored']
        IN  /\ ( /\ entering
                 /\ key \in DOMAIN cache
                 /\ now - cache[key].timestamp >= CACHE_TTL )
               => /\ ~(pc' = "idle" /\ ret'.fromCache)
                  /\ SameButCache(
                        after,
                        performWhoisQuery([Cur EXCEPT !.cache = Without(cache, key)],
                                          req'.query, req'.type, req'.dataSource),
                        key)
            /\ ( /\ entering
                 /\ name \in DOMAIN rdapCache
                 /\ now - rdapCache[name].timestamp >= RDAP_CACHE_TTL_MS )
               => SameButRdapCache(
                        after,
                        performWhoisQuery(
                            [Cur EXCEPT !.rdapCache = Without(rdapCache, name)],
                            req'.query, req'.type, req'.dataSource),
                        name)
            /\ ( /\ req'.kind = "resolve"
                 /\ pc # "idle" \/ entering
                 /\ pc' = "idle"
                 /\ ret'.status = "ok"
                 /\ ~ret'.fromCache )
               => /\ key \in DOMAIN cache'
                  /\ cache'[key] = [data |-> ret'.value, timestamp |-> now']
      ]_vars

\* a second resolve found its entry five minutes old and is asking upstream
C19_Witness ==
    /\ req.kind = "resolve"
    /\ ncalls = 2
    /\ pc # "idle"
    /\ calls # <<>>
    /\ cacheKey(req.query, req.type, req.dataSource) \in DOMAIN cache
    /\ now - cache[cacheKey(req.query, req.type, req.dataSource)].timestamp
          = CACHE_TTL

\* the queries of the running call to candidate registry servers, in the
\* order they were sent
RegistryCalls == SelectSeq(calls, LAMBDA c : c.kind = "rdap-registry")

\* the candidate list of the running call
Candidates == getRDAPServers(dynamicRdapMap, toASCII(req.query))

\* the j-th query went to the j-th candidate, after every query before it
\* had failed (timeout, non-2xx or a body that does not parse)
InListOrder ==
    /\ Len(RegistryCalls) <= Len(Candidates)
    /\ \A j \in 1..Len(RegistryCalls) :
          /\ RegistryCalls[j].url = Candidates[j]
          /\ \A i \in 1..(j - 1) : ~RegistryCalls[i].ok

EveryCandidateFailed ==
    /\ Len(Candidates) > 0
    /\ Len(RegistryCalls) = Len(Candidates)
    /\ \A j \in 1..Len(RegistryCalls) : ~RegistryCalls[j].ok

RdapQueried == \E i \in 1..Len(calls) : calls[i].kind \in {"rdap-registry", "rdap-registrar"}

\* the running call sent a WHOIS query (over TCP or through the command)
WhoisQueried == \E i \in 1..Len(calls) : calls[i].kind \in {"tcp", "exec"}

\* C21: when the list of candidate servers of the top-level domain is
\* empty, queryDomainRDAP throws NoServerFound and no RDAP domain query is
\* sent; a resolve that tries RDAP first then goes on to the WHOIS steps:
\* it does not end with that error, and it ends only after a WHOIS query.
C21_NoServerFallsBack ==
    /\ ( /\ req.kind = "resolve"
         /\ loc.rdapStep \notin {"none", "hit"}
         /\ Len(Candidates) = 0 )
       => /\ loc.rdapError = "NoRdapServer"
          /\ ~RdapQueried
          /\ loc.prioStep # "none"
          /\ WhoisQueried
          /\ pc = "idle" => ~(ret.status = "error" /\ ret.error = "NoRdapServer")
    /\ (req.kind = "resolve" /\ loc.rdapError = "NoRdapServer")
       => (Len(Candidates) = 0 /\ ~RdapQueried)

\* a resolve of a name without candidate servers ended with a WHOIS record
C21_Witness ==
    /\ req.kind = "resolve"
    /\ loc.branch = "E"
    /\ loc.rdapError = "NoRdapServer"
    /\ Len(Candidates) = 0
    /\ pc = "idle"
    /\ ret.status = "ok"
    /\ ret.value.dataSource \in {"registry", "registrar", "standard"}

\* the queries of the running call to a registrar's RDAP endpoint
RegistrarCalls == SelectSeq(calls, LAMBDA c : c.kind = "rdap-registrar")

\* C22: a call of queryDomainRDAP that sent a query to the registrar's
\* endpoint succeeds whatever became of that query; its result is tagged
\* rdapSource = registrar exactly when the registrar answered 2xx with a
\* body that parses, and otherwise it is the registry's answer tagged
\* rdapSource = registry.  (A call answered from rdapCache sends no query
\* and returns the tag that was stored.)
C22_RegistrarFailureKeepsRegistry ==
    (req.kind = "rdap" /\ pc = "idle" /\ ~ret.fromCache) =>
        /\ Len(RegistrarCalls) > 0 => ret.status = "ok"
        /\ ret.status = "ok" =>
              /\ ret.value.rdapSource \in {"registrar", "registry"}
              /\ ret.value.registryRaw \in RegistryBodies
              /\ ret.value.rdapSource = "registrar"
                    <=> (Len(RegistrarCalls) = 1 /\ RegistrarCalls[1].ok)
              /\ ret.value.rdapSource = "registry"
                    => ret.value.body = ret.value.registryRaw

\* the registrar's endpoint was asked and failed; the call returned the
\* registry's answer
C22_Witness ==
    /\ req.kind = "rdap"
    /\ pc = "idle"
    /\ ~ret.fromCache
    /\ Len(RegistrarCalls) = 1
    /\ ~RegistrarCalls[1].ok
    /\ ret.status = "ok"
    /\ ret.value.rdapSource = "registry"
    /\ ret.value.body \in RegistryBodies

(***************************************************************************)
(* Properties of ensureBootstrapLoaded.                                    *)
(***************************************************************************)
\* C23: a fetch of the bootstrap document is issued only when no map is
\* held or the map was loaded BOOTSTRAP_TTL (24 hours) ago or earlier: a
\* lookup made less than 24 hours after a refresh that succeeded issues
\* none.  A refresh that succeeded leaves a map and the time it started.
C23_BootstrapOncePerDay ==
    [][ /\ (pc # "bootstrap" /\ pc' = "bootstrap")
           => \/ dynamicRdapMap.isNull
              \/ now - lastBootstrapFetch >= BOOTSTRAP_TTL
        /\ (pc = "bootstrap" /\ calls'[Len(calls)].ok)
           => (~dynamicRdapMap'.isNull /\ lastBootstrapFetch' = now)
      ]_vars

\* a second call, one minute short of 24 hours after the refresh of the
\* first, asked a registry server without a bootstrap fetch
C23_Witness ==
    /\ req.kind = "rdap"
    /\ ncalls = 2
    /\ ~dynamicRdapMap.isNull
    /\ now - lastBootstrapFetch = BOOTSTRAP_TTL - Minute
    /\ Len(calls) > 0
    /\ calls[1].kind = "rdap-registry"

\* C24: a refresh of the bootstrap map that fails leaves the map and the
\* time of its last refresh as they were and raises nothing: the lookup
\* goes on with the map held before (possibly none), to the first
\* candidate of that map or, without candidates, to NoServerFound.  The
\* map held is never a partly built one.
C24_FailedRefreshKeepsMap ==
    [][ /\ (pc = "bootstrap" /\ ~calls'[Len(calls)].ok)
           => LET servers == getRDAPServers(dynamicRdapMap, loc.asciiDomain)
              IN  /\ dynamicRdapMap' = dynamicRdapMap
                  /\ lastBootstrapFetch' = lastBootstrapFetch
                  /\ IF Len(servers) = 0
                     THEN /\ pc' = "idle"
                          /\ ret'.status = "error"
                          /\ ret'.error = "NoRdapServer"
                     ELSE /\ pc' = "rdapRegistry"
                          /\ calls'[Len(calls')].kind = "rdap-registry"
                          /\ calls'[Len(calls')].url = servers[1]
        /\ ~dynamicRdapMap'.isNull
           => \E doc \in BootstrapDocs :
                 dynamicRdapMap'.map = BuildMap(<<>>, doc, 1)
      ]_vars

\* a refresh 24 hours after the first failed; the lookup went on with the
\* map of the first
C24_Witness ==
    /\ req.kind = "rdap"
    /\ ncalls = 2
    /\ pc = "rdapRegistry"
    /\ Len(calls) = 2
    /\ calls[1].kind = "bootstrap"
    /\ ~calls[1].ok
    /\ ~dynamicRdapMap.isNull
    /\ now - lastBootstrapFetch = BOOTSTRAP_TTL
    /\ calls[2].url = getRDAPServers(dynamicRdapMap, toASCII(req.query))[1]

(***************************************************************************)
(* Properties of the result cache.                                         *)
(***************************************************************************)
\* C25: when an earlier resolve stored its record less than CACHE_TTL ago
\* for a query with the same ASCII form as that of the running resolve,
\* and the same type and data source, the running resolve is answered from
\* the cache and sends no query.
C25_SharedEntry ==
    ( /\ req.kind = "resolve"
      /\ \E t \in DOMAIN stored :
            /\ t[1] = req.type
            /\ toASCII(t[2]) = toASCII(req.query)
            /\ t[3] = req.dataSource
            /\ stored[t].call < ncalls
            /\ now - stored[t].at < CACHE_TTL )
    => ( /\ pc = "idle"
         /\ calls = <<>>
         /\ ret.status = "ok"
         /\ ret.fromCache )

\* the WHOIS queries of the running call made through the whois command
\* without a host (whois "<query>")
UnqualifiedCalls ==
    SelectSeq(calls, LAMBDA c : c.kind = "exec" /\ c.host = <<>>)

\* C26: a resolve issues at most one WHOIS query without a host, whichever
\* of its steps failed before.
C26_OneUnqualifiedQuery ==
    req.kind = "resolve" => Len(UnqualifiedCalls) <= 1

\* C26, the count the code reaches: three queries without a host, by the
\* registry step, the fallback of the priority chain and the resolve itself
C26_AtMostThreeUnqualified ==
    req.kind = "resolve" => Len(UnqualifiedCalls) <= 3

C26_ThreeWitness ==
    /\ req.kind = "resolve"
    /\ Len(UnqualifiedCalls) = 3

(***************************************************************************)
(* Two resolve calls at a time (SpecTwo).                                  *)
(***************************************************************************)
\* the entry call the event loop is running or ran last
This ==
    [ pc |-> pc, req |-> req, loc |-> loc, calls |-> calls,
      inflight |-> inflight, ret |-> ret ]

Done(T) == T.req.kind = "resolve" /\ T.pc = "idle"

KeyOf(T) == cacheKey(T.req.query, T.req.type, T.req.dataSource)

\* call T works through a chain of its own: it is answered by neither
\* cache, what it waits for is a network call it issued itself, and when it
\* is over it has sent at least one query of its own
OwnChain(T) ==
    T.req.kind = "resolve"
    => /\ ~T.ret.fromCache
       /\ T.loc.rdapStep # "hit"
       /\ T.pc # "idle" => /\ Len(T.calls) > 0
                           /\ T.inflight = {T.calls[Len(T.calls)]}
       /\ T.pc = "idle" => /\ T.inflight = {}
                           /\ \E i \in 1..Len(T.calls) :
                                 T.calls[i].kind # "bootstrap"

BothDone == Done(This) /\ Done(peer)

RegistryWhoisCalls ==
    SelectSeq(calls, LAMBDA c : c.at \in {"registryTcp", "registryExec"})

\* the host the tables give for a name: that of the ccTLD table when its
\* last label is a country code with a host, else that of the gTLD table,
\* else none
TableHost(query) ==
    LET tld == ToLowerCase(query[Len(query)])
    IN  IF tld \in CCTLD_DATABASE /\ CCTLDWhoisServer(tld) # <<>>
        THEN CCTLDWhoisServer(tld)
        ELSE gtldServers(tld)

Asked(at) == \E i \in 1..Len(fn.calls) : fn.calls[i].at = at

NoText == [got |-> FALSE, text |-> <<>>]
GotText(text) == [got |-> TRUE, text |-> text]

\* the text the registry query ended with
RegistryAnswer ==
    IF Asked("registryTcp") /\ fn.regTcp.kind = "ok" THEN GotText(fn.regTcp.text)
    ELSE IF Asked("registryExec") /\ fn.regExec.kind \in {"ok", "stderr"}
    THEN GotText(fn.regExec.stdout)
    ELSE NoText

\* the registry query succeeded: it gave a text that is no notice of an
\* unregistered name
RegistryOk ==
    RegistryAnswer.got /\ ~isDomainUnregisteredFromWhois(RegistryAnswer.text)

\* the text the registrar query succeeded with: that of the TCP query, or
\* of the whois command run after it, neither a notice of an unregistered
\* name
RegistrarAnswer ==
    IF extractRegistrarWhoisServer(RegistryAnswer.text) = <<>> THEN NoText
    ELSE IF fn.rrTcp.kind = "ok" /\ ~isDomainUnregisteredFromWhois(fn.rrTcp.text)
    THEN GotText(fn.rrTcp.text)
    ELSE IF /\ fn.rrExec.kind \in {"ok", "stderr"}
            /\ ~isDomainUnregisteredFromWhois(fn.rrExec.stdout)
    THEN GotText(fn.rrExec.stdout)
    ELSE NoText

\* a line of the text names a registrant, admin or tech contact's name,
\* e-mail or phone, and has a value
NamesContact(text) ==
    \E k \in 1..Len(text) :
       LET c == FirstColon(text[k])
       IN  /\ c = 3
           /\ Len(text[k]) > 3
           /\ ToLowerCase(text[k][1]) \in {"registrant", "admin", "tech"}
           /\ ToLowerCase(text[k][2]) \in {"name", "email", "phone"}

\* C32: the record the priority step returns is made of the registrar's
\* text exactly when a registrar host was found in the registry text, the
\* query to it succeeded, and its text names a registrant, admin or tech
\* contact's name, e-mail or phone with a value; whenever else the
\* registry query succeeded the record is made of the registry text, and
\* no failure of the registrar query makes the step fail.
C32_RegistrarTextIfRich ==
    (fn.op = "priority" /\ RegistryOk)
    => LET text == IF RegistrarAnswer.got /\ NamesContact(RegistrarAnswer.text)
                   THEN RegistrarAnswer.text
                   ELSE RegistryAnswer.text
       IN  /\ fn.pc = "idle"
           /\ fn.ret.status = "ok"
           /\ fn.ret.value.raw = text
           /\ fn.ret.value.parsed = parseWhoisResult(text)
           /\ fn.ret.value.source
                = IF RegistrarAnswer.got /\ NamesContact(RegistrarAnswer.text)
                  THEN "registrar" ELSE "registry"

\* the registrar's host failed over TCP and answered the whois command with
\* an admin contact's e-mail address: the record is made of that text
C32_Witness ==
    /\ fn.op = "priority"
    /\ RegistryOk
    /\ fn.rrTcp.kind = "error"
    /\ Asked("registrarExec")
    /\ fn.rrExec.kind = "ok"
    /\ fn.rrExec.stdout = TextEmail
    /\ fn.ret.status = "ok"
    /\ fn.ret.value.raw = TextEmail

\* both registrar queries failed and the record is made of the registry
\* text
C32_FailureWitness ==
    /\ fn.op = "priority"
    /\ RegistryOk
    /\ Asked("registrarExec")
    /\ fn.rrTcp.kind = "error"
    /\ fn.rrExec.kind = "failed"
    /\ fn.ret.status = "ok"
    /\ fn.ret.value.raw = RegistryAnswer.text

(***************************************************************************)
(* parseEvents on its own (EventsCall).                                    *)
(***************************************************************************)
\* the lower-cased actions that contain registration, created or create
HasCreation == {"registration", "created", "registration expiration"}

\* those that contain "expir"
HasExpir ==
    {"expiration", "expiry", "expired", "expiring", "registration expiration"}

\* those that contain expiration, expiry or expire
HasExpiryNeedle ==
    {"expiration", "expiry", "expired", "registration expiration"}

\* those that contain "last changed" or "last update", or are update or
\* updated
HasUpdate == {"last changed", "last update", "update", "updated"}

\* the dates of the events of a list whose lower-cased action is in a set
DatesOf(events, family) ==
    { events[k].eventDate :
        k \in {j \in 1..Len(events) :
                 ToLowerCase(events[j].eventAction) \in family} }

\* the date of the last such event
LastDateOf(events, family) ==
    LET ks == {j \in 1..Len(events) :
                 ToLowerCase(events[j].eventAction) \in family}
    IN  events[CHOOSE k \in ks : \A j \in ks : j <= k].eventDate

\* a date field is set exactly when the list has an event of its family,
\* to the date of one of them
FieldFrom(out, key, events, family) ==
    IF DatesOf(events, family) = {} THEN key \notin DOMAIN out
    ELSE /\ key \in DOMAIN out
         /\ out[key].v \in DatesOf(events, family)

\* C33 (as stated): the creation date comes from the events whose action
\* contains registration, created or create, the expiry date from those
\* whose action contains "expir", the last-updated date from those whose
\* action contains "last changed" or "last update" or is update or
\* updated, in any letter case; an event of none of these sets no date.
C33_EventFamilies ==
    fn.op = "events"
    => /\ FieldFrom(fn.out, <<"creation", "date">>, fn.in, HasCreation)
       /\ FieldFrom(fn.out, <<"registry", "expiry", "date">>, fn.in, HasExpir)
       /\ FieldFrom(fn.out, <<"updated", "date">>, fn.in, HasUpdate)
       /\ DOMAIN fn.out \subseteq {<<"creation", "date">>,
                                   <<"registry", "expiry", "date">>,
                                   <<"updated", "date">>}

\* C33 (amended): each event belongs to the first family its lower-cased
\* action matches: creation (contains registration, created or create),
\* then expiry (contains expiration, expiry or expire), then last-updated
\* (contains "last changed" or "last update", or is update or updated);
\* each date field is set exactly when the list has an event of its
\* family, to the date of the last of them, and an event of no family sets
\* no date.
C33_FirstFamilyOfNeedles ==
    fn.op = "events"
    => LET creation == HasCreation
           expiry == HasExpiryNeedle \ HasCreation
           updated == (HasUpdate \ HasExpiryNeedle) \ HasCreation
           Field(key, family) ==
               IF DatesOf(fn.in, family) = {} THEN key \notin DOMAIN fn.out
               ELSE /\ key \in DOMAIN fn.out
                    /\ fn.out[key].v = LastDateOf(fn.in, family)
       IN  /\ Field(<<"creation", "date">>, creation)
           /\ Field(<<"registry", "expiry", "date">>, expiry)
           /\ Field(<<"updated", "date">>, updated)
           /\ DOMAIN fn.out \subseteq {<<"creation", "date">>,
                                       <<"registry", "expiry", "date">>,
                                       <<"updated", "date">>}

\* an event whose action has "expir" and none of the three needles set no
\* date, and an event after it set the last-updated date
C33_Witness ==
    /\ fn.op = "events"
    /\ Len(fn.in) = 2
    /\ fn.in[1].eventAction = "expiring"
    /\ fn.in[2].eventAction = "Updated"
    /\ DOMAIN fn.out = {<<"updated", "date">>}

(***************************************************************************)
(* The result cache and failures.                                          *)
(***************************************************************************)
\* C34: a resolve that ends in failure leaves the result cache as it was
\* when the call began: the only step that changes the cache is the return
\* of a resolve with a record it obtained itself, which sets the entry of
\* its own key; so what a later call is served from the cache is a record
\* that a successful resolve stored, never a failure.
C34_FailureLeavesCache ==
    [][ /\ cache' # cache
           => /\ req'.kind = "resolve"
              /\ pc' = "idle"
              /\ ret'.status = "ok"
              /\ ~ret'.fromCache
              /\ \A k \in DOMAIN cache :
                    k # cacheKey(req'.query, req'.type, req'.dataSource)
                    => (k \in DOMAIN cache' /\ cache'[k] = cache[k])
              /\ DOMAIN cache' = DOMAIN cache
                    \cup {cacheKey(req'.query, req'.type, req'.dataSource)}
        /\ (pc' = "idle" /\ ret'.fromCache /\ req'.kind = "resolve")
           => /\ ret'.status = "ok"
              /\ \E t \in DOMAIN stored' : stored'[t].data = ret'.value ]_vars

\* a second resolve failed while the cache held the record of the first
C34_Witness ==
    /\ req.kind = "resolve"
    /\ ncalls = 2
    /\ pc = "idle"
    /\ ret.status = "error"
    /\ Len(calls) > 0
    /\ DOMAIN cache # {}
    /\ cacheKey(req.query, req.type, req.dataSource) \notin DOMAIN cache

(***************************************************************************)
(* The age of a returned record (SpecAged).                                *)
(***************************************************************************)
\* when the upstream answer of the record the last resolve returned arrived
OriginOfReturned == stored[Triple(req)].origin

\* the step in which a resolve returns a record
Returns ==
    /\ pc # "idle" \/ ncalls' = ncalls + 1
    /\ pc' = "idle"
    /\ req'.kind = "resolve"
    /\ ret'.status = "ok"

\* C35: a record that resolve returns is made of an upstream answer that
\* arrived less than CACHE_TTL (five minutes) before the return, the result
\* cache and the cache of the RDAP client taken together.
C35_YoungerThanTtl ==
    [][ Returns => /\ Triple(req') \in DOMAIN stored'
                   /\ now' - OriginOfReturned' < CACHE_TTL ]_vars

\* what holds: each cache serves an entry younger than its own TTL, so a
\* record is made of an answer younger than the two TTLs together
C35_YoungerThanBothTtls ==
    [][ Returns => /\ Triple(req') \in DOMAIN stored'
                   /\ now' - OriginOfReturned' < CACHE_TTL + RDAP_CACHE_TTL_MS
      ]_vars

\* a record served from the result cache eight minutes after its answer
\* arrived (no time has passed since the return: all clock advances were
\* used before the third call)
C35_OldWitness ==
    /\ req.kind = "resolve"
    /\ ncalls = 3
    /\ pc = "idle"
    /\ ret.status = "ok"
    /\ ret.fromCache
    /\ now - OriginOfReturned = 8 * Minute

(***************************************************************************)
(* The preferred source and the cache of the RDAP client.                  *)
(***************************************************************************)
\* C36: a call of queryDomainRDAP with preferSource = registry returns a
\* result whose rdapSource is registry, whatever calls for the same name
\* came before it, with another preferSource or none.
C36_RegistryTagged ==
    (/\ req.kind = "rdap"
     /\ req.preferSource = "registry"
     /\ pc = "idle"
     /\ ret.status = "ok")
    => ret.value.rdapSource = "registry"

\* what holds: such a call returns a registry result unless it is served
\* from the cache of the RDAP client
C36_RegistryTaggedUnlessCached ==
    (/\ req.kind = "rdap"
     /\ req.preferSource = "registry"
     /\ pc = "idle"
     /\ ret.status = "ok"
     /\ loc.rdapStep # "hit")
    => ret.value.rdapSource = "registry"

\* a call with preferSource = registry was served the registrar's answer
\* that an earlier call had left in the cache
C36_CachedWitness ==
    /\ req.kind = "rdap"
    /\ req.preferSource = "registry"
    /\ ncalls = 2
    /\ pc = "idle"
    /\ ret.status = "ok"
    /\ loc.rdapStep = "hit"
    /\ ret.value.rdapSource = "registrar"

(***************************************************************************)
(* The dataSource tag of a record made of WHOIS text.                      *)
(***************************************************************************)
\* the last resolve returned a record of the priority chain's third step:
\* its source field names the host whose text was kept
ReturnedPriorityRecord ==
    /\ req.kind = "resolve"
    /\ pc = "idle"
    /\ ret.status = "ok"
    /\ "source" \in DOMAIN ret.value

\* C37: the dataSource tag of a record made of WHOIS text names the
\* authority whose text was parsed and returned: registrar exactly when
\* the registrar's text was kept, registry exactly when the registry's text
\* was kept, also when the request asked for registrar or for registry.
C37_TagNamesAuthority ==
    ReturnedPriorityRecord => ret.value.dataSource = ret.value.source

\* what holds: the tag names the authority on the automatic path, and is
\* the data source asked for when that is registrar or registry
C37_TagNamesRequest ==
    ReturnedPriorityRecord
    => ret.value.dataSource
         = IF req.dataSource \in {"registrar", "registry"}
           THEN req.dataSource ELSE ret.value.source

\* a request for the registrar returned the registry's text, tagged
\* registrar
C37_MistaggedWitness ==
    /\ ReturnedPriorityRecord
    /\ req.dataSource = "registrar"
    /\ ret.value.source = "registry"
    /\ ret.value.raw = TextRegistry
    /\ ret.value.dataSource = "registrar"

(***************************************************************************)
(* Properties of the handlers' input validation.                           *)
(***************************************************************************)

\* a handler handed a command to the shell
Interpolated == fn.op = "entry" /\ fn.command # <<>>

\* the characters the validation is meant to keep out
Forbidden == ClassChars \cup {"]"}

HasForbidden(str) == \E i \in 1..Len(str) : str[i] \in Forbidden

\* C38: every query interpolated into a whois shell command has passed
\* validateInput, and a query that passed it holds none of the characters
\* ; & | ` $ ( ) { } [ ] and backslash, through POST and through GET
C38_CommandsValidated ==
    Interpolated =>
        /\ fn.validated
        /\ ~HasForbidden(fn.query)

\* what does hold: POST interpolates only what validateInput accepted, and
\* GET interpolates every non-empty q
C38_PostValidates ==
    Interpolated =>
        /\ fn.handler = "POST" => validateInput(fn.in, fn.type).valid
        /\ fn.handler = "GET" => fn.query = fn.in

\* POST interpolated a query that holds a semicolon
C38_PostWitness ==
    /\ Interpolated
    /\ fn.handler = "POST"
    /\ \E i \in 1..Len(fn.query) : fn.query[i] = ";"

\* GET interpolated a query that no validation saw
C38_GetWitness ==
    /\ Interpolated
    /\ fn.handler = "GET"
    /\ HasForbidden(fn.query)

\* POST refused a query for its characters
C38_RefusedWitness ==
    /\ fn.op = "entry"
    /\ fn.error = "chaxun neirong baohan feifa zifu"

(***************************************************************************)
(* Properties of overlapping bootstrap refreshes.                          *)
(***************************************************************************)

\* a refresh assigns the map and the timestamp
Refreshes == pc = "bootstrap" /\ pc' # "bootstrap" /\ ~dynamicRdapMap'.isNull
             /\ loc.bootNow = lastBootstrapFetch'

\* C39: when bootstrap refreshes of concurrent resolves overlap, the
\* refresh timestamp never decreases, and the map of a refresh that began
\* later is never replaced by the map of a refresh that began earlier
C39_RefreshesInOrder ==
    [][ /\ lastBootstrapFetch' >= lastBootstrapFetch
        /\ (Refreshes /\ ~dynamicRdapMap.isNull)
              => loc.bootNow >= lastBootstrapFetch ]_vars

\* what does hold: the timestamp is the time the refresh that assigned the
\* map began, whichever refresh ended last
C39_StampOfLastToEnd ==
    [][ lastBootstrapFetch' # lastBootstrapFetch
          => (Refreshes /\ lastBootstrapFetch' = loc.bootNow) ]_vars

\* both refreshes are under way, the second begun later than the first
C39_OverlapWitness ==
    /\ pc = "bootstrap"
    /\ peer.pc = "bootstrap"
    /\ loc.bootNow # peer.loc.bootNow

\* the refresh that began first ended last: its map is in place, with its
\* timestamp, while the clock of the later one had been assigned before
C39_OlderWitness ==
    /\ ~dynamicRdapMap.isNull
    /\ lastBootstrapFetch = 0
    /\ peer.loc.bootNow > 0
    /\ peer.pc \notin {"idle", "bootstrap"}
    /\ pc \notin {"idle", "bootstrap"}

(***************************************************************************)
(* Properties of the list fields on the two normalization paths.           *)
(***************************************************************************)

ListKeys == {<<"name", "server">>, <<"domain", "status">>}

\* the text rdapToWhoisText made was parsed
RoundTrip == fn.op = "normalize" /\ ~fn.hand

\* C40: name_server and domain_status have the same shape on both paths:
\* parseWhoisResult gives an ordered list for any number of lines, exactly
\* one included, as parseRDAPResponse does, so that parsing the text
\* rdapToWhoisText made gives the same two lists back
C40_SameShape ==
    /\ fn.op = "parse" =>
          \A key \in ListKeys \cap DOMAIN fn.out : fn.out[key].isArray
    /\ RoundTrip =>
          \A key \in ListKeys \cap DOMAIN fn.rdap :
              /\ fn.rdap[key].isArray
              /\ ValueAt(fn.whois, key) = fn.rdap[key]

\* what does hold: a list of two or more comes back as it was, a list of
\* one comes back as the string that is its element
C40_ListOfTwoOrMore ==
    RoundTrip =>
        \A key \in ListKeys \cap DOMAIN fn.rdap :
            /\ fn.rdap[key].isArray
            /\ Len(fn.rdap[key].v) >= 2 => ValueAt(fn.whois, key) = fn.rdap[key]
            /\ Len(fn.rdap[key].v) = 1 =>
                  ValueAt(fn.whois, key)
                    = [isArray |-> FALSE, v |-> fn.rdap[key].v[1]]

\* one name server on the RDAP path, a string on the WHOIS path
C40_OneWitness ==
    /\ RoundTrip
    /\ fn.rdap[<<"name", "server">>].v = << <<"ns1.example.info">> >>
    /\ ~fn.whois[<<"name", "server">>].isArray

\* two name servers come back in their order
C40_TwoWitness ==
    /\ RoundTrip
    /\ fn.whois[<<"name", "server">>]
         = [isArray |-> TRUE,
            v |-> << <<"ns2.example.info">>, <<"ns1.example.info">> >>]

\* a text with one Name Server line was parsed
C40_OneLineWitness ==
    /\ fn.op = "parse"
    /\ <<"name", "server">> \in DOMAIN fn.out
    /\ ~fn.out[<<"name", "server">>].isArray

=============================================================================
